---------------------------- MODULE Spec2Model ----------------------------
(***************************************************************************)
(* Code-generation orchestration pipeline of the Strands visual builder    *)
(* backend: the /generate-code handler, AgentService.generate_code_freeform*)
(* with its remote (AgentCore) attempt and local fallback, the layered     *)
(* code extraction, the S3 artifact store client, the re-emission of a     *)
(* streamed remote response, and the chat invocation service.              *)
(*                                                                         *)
(* Text is modelled as a sequence of lexemes (tokens).  Each token stands  *)
(* for a fixed piece of text with a fixed character length (TokLen), and   *)
(* the tokens are chosen so that none of the substrings the code searches  *)
(* for straddles a token boundary.  Regular expressions and substring      *)
(* tests of the source are evaluated on these token sequences.             *)
(***************************************************************************)
EXTENDS Integers, Sequences, FiniteSets, TLC

(***************************************************************************)
(* Lexemes                                                                 *)
(***************************************************************************)

\* "FENCE_PY" is the opening fence of a block tagged python (three backticks
\* and the word python), "FENCE" a bare fence of three backticks.
\* "NL" is a line feed, "CR" a carriage return, "SP" a blank, "ESC_N" the
\* two characters backslash and n.  "LONG" is a 60-character statement line
\* with none of the searched substrings, "x = 1" a short one.
TokLen ==
    [t \in {"FENCE_PY", "FENCE", "NL", "CR", "SP", "ESC_N", "LONG", "x = 1",
            "from strands import Agent", "import strands", "Agent(m)",
            "def f():", "# ok", "Here is the code:", "eval(x)", "input()",
            "s3", "://", "bucket", "/", "temp-code", "req", "_", "1",
            "pure", "strands.py", "agentcore", "ready.py", "requirements.txt",
            "# No Python code blocks found", "Code stored in S3",
            "Code generated by AgentCore"} |->
        CASE t = "FENCE_PY" -> 9
          [] t = "FENCE" -> 3
          [] t \in {"NL", "CR", "SP", "/", "_", "1"} -> 1
          [] t = "ESC_N" -> 2
          [] t = "LONG" -> 60
          [] t = "x = 1" -> 5
          [] t = "from strands import Agent" -> 25
          [] t = "import strands" -> 14
          [] t = "Agent(m)" -> 8
          [] t = "def f():" -> 8
          [] t = "# ok" -> 4
          [] t = "Here is the code:" -> 17
          [] t \in {"eval(x)", "input()"} -> 7
          [] t = "s3" -> 2
          [] t = "://" -> 3
          [] t = "bucket" -> 6
          [] t = "temp-code" -> 9
          [] t = "req" -> 3
          [] t = "pure" -> 4
          [] t = "strands.py" -> 10
          [] t = "agentcore" -> 9
          [] t = "ready.py" -> 8
          [] t = "requirements.txt" -> 16
          [] t = "# No Python code blocks found" -> 117
          [] t = "Code stored in S3" -> 17
          [] t = "Code generated by AgentCore" -> 27]

Tokens == DOMAIN TokLen

RECURSIVE TextLen(_)
\* len(text): the number of characters of a token sequence
TextLen(text) ==
    IF text = <<>> THEN 0 ELSE TokLen[Head(text)] + TextLen(Tail(text))

\* str.isspace() on one token
IsSpace(t) == t \in {"NL", "CR", "SP"}

RECURSIVE LStrip(_)
LStrip(text) ==
    IF text /= <<>> /\ IsSpace(Head(text)) THEN LStrip(Tail(text)) ELSE text

RECURSIVE RStrip(_)
\* str.rstrip()
RStrip(text) ==
    IF text /= <<>> /\ IsSpace(text[Len(text)])
    THEN RStrip(SubSeq(text, 1, Len(text) - 1))
    ELSE text

\* str.strip()
Strip(text) == RStrip(LStrip(text))

\* needle in token: the substrings the code searches for, per token
Has(t, needle) ==
    CASE needle = "from strands" -> t = "from strands import Agent"
      [] needle = "from strands import" -> t = "from strands import Agent"
      [] needle = "import strands" -> t = "import strands"
      [] needle = "import" -> t \in {"from strands import Agent", "import strands"}
      [] needle = "Agent(" -> t = "Agent(m)"
      [] needle = "def " -> t = "def f():"
      [] needle = "class " -> FALSE
      [] needle = "if __name__" -> FALSE
      [] needle = "#" -> t \in {"# ok", "# No Python code blocks found"}
      [] needle = "\\n" -> t = "ESC_N"
      [] needle = "eval(" -> t = "eval(x)"
      [] needle = "input(" -> t = "input()"
      [] OTHER -> FALSE

\* needle in text
Contains(text, needle) == \E i \in 1..Len(text) : Has(text[i], needle)

\* pattern in text, for a pattern that is itself a token sequence
ContainsSeq(text, pat) ==
    \E i \in 1..(Len(text) - Len(pat) + 1) :
        SubSeq(text, i, i + Len(pat) - 1) = pat

\* text[:n] for a character count n, cut at the last whole token
RECURSIVE Prefix(_, _)
Prefix(text, n) ==
    IF text = <<>> \/ TokLen[Head(text)] > n THEN <<>>
    ELSE <<Head(text)>> \o Prefix(Tail(text), n - TokLen[Head(text)])


(***************************************************************************)
(* Layered code extraction (AgentService)                                  *)
(***************************************************************************)

\* Minimum viable code length of _extract_code_with_fallbacks
MinViableLen == 50

\* Length of the raw-response preview of a failed extraction
PreviewLen == 500

\* The outcome of a method that raised ValueError
Raised == [ok |-> FALSE, code |-> <<>>]

\* The token is, or begins with, three backticks
StartsFence(t) == t \in {"FENCE", "FENCE_PY"}

\* re:  <open>\s*\n(.*?)\n```  (DOTALL) tried at token i, or  <open>\n(.*?)\n```
\* when ws is FALSE.  c[1] is the token the \n after the greedy \s* consumes,
\* c[2] the last token of the lazy group (c[2] = c[1] for an empty group).
\* Greedy \s* prefers the largest c[1], the lazy group the smallest c[2].
\* The result is <<>> or a one-element sequence.
FenceMatchAt(text, i, open, ws) ==
    LET n == Len(text)
        cands == {c \in ((i + 1)..n) \X ((i + 1)..n) :
                     /\ text[c[1]] = "NL"
                     /\ (ws \/ c[1] = i + 1)
                     /\ \A m \in (i + 1)..c[1] : IsSpace(text[m])
                     /\ c[2] >= c[1]
                     /\ c[2] + 2 <= n
                     /\ text[c[2] + 1] = "NL"
                     /\ StartsFence(text[c[2] + 2])}
    IN  IF text[i] /= open \/ cands = {} THEN <<>>
        ELSE <<CHOOSE c \in cands :
                   \A d \in cands :
                       c[1] > d[1] \/ (c[1] = d[1] /\ c[2] <= d[2])>>

RECURSIVE FencedBlocks(_, _, _, _)
\* re.findall of the fenced pattern: the captured groups, left to right
FencedBlocks(text, i, open, ws) ==
    IF i > Len(text) THEN <<>>
    ELSE LET m == FenceMatchAt(text, i, open, ws)
         IN  IF m = <<>> THEN FencedBlocks(text, i + 1, open, ws)
             ELSE <<SubSeq(text, m[1][1] + 1, m[1][2])>>
                      \o FencedBlocks(text, m[1][2] + 3, open, ws)

\* The last token of the lazy  .*?(?=\n\n|\Z)  that starts in token i
AnchorEnd(text, i) ==
    CHOOSE e \in i..Len(text) :
        /\ e = Len(text) \/ (e + 2 <= Len(text) /\ text[e + 1] = "NL" /\ text[e + 2] = "NL")
        /\ \A f \in i..(e - 1) :
               ~(f + 2 <= Len(text) /\ text[f + 1] = "NL" /\ text[f + 2] = "NL")

RECURSIVE AnchoredSlices(_, _, _)
\* re.findall(r'(<needle>.*?(?=\n\n|\Z))', text, re.DOTALL)
AnchoredSlices(text, i, needle) ==
    IF i > Len(text) THEN <<>>
    ELSE IF Has(text[i], needle)
         THEN <<SubSeq(text, i, AnchorEnd(text, i))>>
                  \o AnchoredSlices(text, AnchorEnd(text, i) + 1, needle)
         ELSE AnchoredSlices(text, i + 1, needle)

looks_like_python(code) ==
    \E ind \in {"from strands", "import strands", "Agent(", "def ", "class ",
                "if __name__"} : Contains(code, ind)

extract_python_blocks(response) ==
    LET matches == FencedBlocks(response, 1, "FENCE_PY", TRUE)
    IN  IF matches /= <<>>
        THEN [ok |-> TRUE, code |-> Strip(matches[Len(matches)])]
        ELSE Raised

extract_generic_blocks(response) ==
    LET matches == FencedBlocks(response, 1, "FENCE", TRUE)
        py == {i \in 1..Len(matches) : looks_like_python(matches[i])}
    IN  IF py /= {}
        THEN [ok |-> TRUE,
              code |-> Strip(matches[CHOOSE i \in py : \A j \in py : j <= i])]
        ELSE Raised

extract_import_based(response) ==
    LET matches == AnchoredSlices(response, 1, "from strands")
    IN  IF matches /= <<>>
        THEN [ok |-> TRUE, code |-> Strip(matches[Len(matches)])]
        ELSE Raised

extract_pattern_matching(response) ==
    LET m1 == AnchoredSlices(response, 1, "from strands import")
        m2 == AnchoredSlices(response, 1, "import strands")
        m3 == AnchoredSlices(response, 1, "Agent(")
    IN  IF m1 /= <<>> THEN [ok |-> TRUE, code |-> Strip(m1[Len(m1)])]
        ELSE IF m2 /= <<>> THEN [ok |-> TRUE, code |-> Strip(m2[Len(m2)])]
        ELSE IF m3 /= <<>> THEN [ok |-> TRUE, code |-> Strip(m3[Len(m3)])]
        ELSE Raised

\* The confidence score, in tenths
calculate_confidence(code) ==
    LET c == (IF Contains(code, "from strands") \/ Contains(code, "import strands")
              THEN 3 ELSE 0)
             + (IF Contains(code, "Agent(") THEN 3 ELSE 0)
             + (IF Contains(code, "def ") \/ Contains(code, "class ") THEN 2 ELSE 0)
             + (IF Contains(code, "#") THEN 1 ELSE 0)
             + (IF Contains(code, "import") THEN 1 ELSE 0)
    IN  IF c < 10 THEN c ELSE 10

\* The result of extraction method number m
ExtractionMethod(m, response) ==
    CASE m = 1 -> extract_python_blocks(response)
      [] m = 2 -> extract_generic_blocks(response)
      [] m = 3 -> extract_import_based(response)
      [] m = 4 -> extract_pattern_matching(response)

MethodName(m) ==
    CASE m = 1 -> "python_blocks"
      [] m = 2 -> "generic_blocks"
      [] m = 3 -> "import_based"
      [] m = 4 -> "pattern_matching"

\* code and len(code.strip()) > 50, for the result of a method that did not
\* raise
IsViable(result) == result.ok /\ TextLen(Strip(result.code)) > MinViableLen

\* The methods whose code passes the test
ViableMethods(response) ==
    {m \in 1..4 : IsViable(ExtractionMethod(m, response))}

\* The last method whose code passes the test, instead of the first
FirstMethod_LastViable(viable) == CHOOSE x \in viable : \A y \in viable : x >= y

\* The first method of the loop that returns
FirstMethod(viable) == CHOOSE x \in viable : \A y \in viable : x <= y

\* The mapping returned from inside the loop
MethodSuccess(m, code) ==
    [success |-> TRUE,
     code |-> code,
     method |-> MethodName(m),
     confidence |-> calculate_confidence(code),
     error |-> "",
     raw_response |-> <<>>]

\* The loop over the methods, given the methods whose code passes the test
TryMethods(viable, response) ==
    IF viable /= {}
    THEN MethodSuccess(FirstMethod(viable),
                       ExtractionMethod(FirstMethod(viable), response).code)
    ELSE [success |-> FALSE,
          code |-> <<>>,
          method |-> "",
          confidence |-> 0,
          error |-> "All code extraction methods failed",
          raw_response |-> Prefix(response, PreviewLen)]

extract_code_with_fallbacks(response) ==
    TryMethods(ViableMethods(response), response)


(***************************************************************************)
(* Formatting cleanup and storage-reference detection (AgentService)       *)
(***************************************************************************)

RECURSIVE NormalizeLineEndings(_)
\* code.replace('\r\n', '\n').replace('\r', '\n')
NormalizeLineEndings(code) ==
    IF code = <<>> THEN <<>>
    ELSE IF Head(code) = "CR" /\ Len(code) >= 2 /\ code[2] = "NL"
         THEN <<"NL">> \o NormalizeLineEndings(Tail(Tail(code)))
    ELSE IF Head(code) = "CR"
         THEN <<"NL">> \o NormalizeLineEndings(Tail(code))
    ELSE <<Head(code)>> \o NormalizeLineEndings(Tail(code))

RECURSIVE CollapseBlankRuns(_, _)
\* re.sub(r'\n{3,}', '\n\n', code); run is the number of line feeds that
\* directly precede the head of code in the output so far
CollapseBlankRuns(code, run) ==
    IF code = <<>> THEN <<>>
    ELSE IF Head(code) = "NL"
         THEN IF run >= 2 THEN CollapseBlankRuns(Tail(code), run)
              ELSE <<"NL">> \o CollapseBlankRuns(Tail(code), run + 1)
    ELSE <<Head(code)>> \o CollapseBlankRuns(Tail(code), 0)

\* Cleaned without the strip of trailing white space
cleanup_code_formatting_NoStrip(code) ==
    IF code = <<>> THEN code
    ELSE CollapseBlankRuns(NormalizeLineEndings(code), 0) \o <<"NL">>

\* _cleanup_code_formatting: line ends normalized, runs of three or more
\* line feeds collapsed to two, trailing white space replaced by one line feed
cleanup_code_formatting(code) ==
    IF code = <<>> THEN code
    ELSE RStrip(CollapseBlankRuns(NormalizeLineEndings(code), 0)) \o <<"NL">>

\* security_checks of _validate_generated_code_security: what is searched
\* for, and the issue recorded for it
SecurityChecks ==
    << <<"api_key = '", "Hardcoded API key detected">>,
       <<"password = '", "Hardcoded password detected">>,
       <<"exec(", "Dynamic code execution detected">>,
       <<"eval(", "Dynamic evaluation detected">>,
       <<"input(", "Interactive input detected (causes automation issues)">> >>

RECURSIVE RunSecurityChecks(_, _, _)
\* The loop over the checks: a hit appends its issue and clears is_safe
RunSecurityChecks(checks, code, validation_results) ==
    IF checks = <<>> THEN validation_results
    ELSE RunSecurityChecks(Tail(checks), code,
             IF Contains(code, Head(checks)[1])
             THEN [is_safe |-> FALSE,
                   security_issues |-> Append(validation_results.security_issues,
                                              Head(checks)[2])]
             ELSE validation_results)

\* _validate_generated_code_security
validate_generated_code_security(code) ==
    RunSecurityChecks(SecurityChecks, code,
                      [is_safe |-> TRUE, security_issues |-> <<>>])

\* The three recognized artifact slots
CodeTypes == {"pure_strands", "agentcore_ready", "requirements"}

\* The file name of a slot, as tokens
SlotFile(code_type) ==
    CASE code_type = "pure_strands" -> <<"pure", "_", "strands.py">>
      [] code_type = "agentcore_ready" -> <<"agentcore", "_", "ready.py">>
      [] code_type = "requirements" -> <<"requirements.txt">>

\* The token consists of characters of [a-zA-Z0-9\-\.] only
InBucketClass(t) ==
    t \in {"s3", "bucket", "temp-code", "req", "1", "pure", "strands.py",
           "agentcore", "ready.py", "requirements.txt"}

\* The token consists of characters of [a-zA-Z0-9\-\./] only
InPathClass(t) == InBucketClass(t) \/ t = "/"

RECURSIVE RunLen(_, _, _)
\* The length of the longest run of tokens of a class that starts at token i
RunLen(text, i, path) ==
    IF i <= Len(text) /\ (IF path THEN InPathClass(text[i]) ELSE InBucketClass(text[i]))
    THEN 1 + RunLen(text, i + 1, path)
    ELSE 0

\* re:  s3://[a-zA-Z0-9\-\.]+/[a-zA-Z0-9\-\./]+  tried at token i: the index of
\* the last token of the match, or 0 when there is no match
UriMatchEnd(text, i) ==
    LET b == RunLen(text, i + 2, FALSE)
        p == RunLen(text, i + b + 3, TRUE)
    IN  IF /\ text[i] = "s3"
           /\ i + 1 <= Len(text)
           /\ text[i + 1] = "://"
           /\ b >= 1
           /\ i + b + 2 <= Len(text)
           /\ text[i + b + 2] = "/"
           /\ p >= 1
        THEN i + b + 2 + p
        ELSE 0

RECURSIVE FindUris(_, _)
\* re.findall(s3_pattern, response_text)
FindUris(text, i) ==
    IF i > Len(text) THEN <<>>
    ELSE IF UriMatchEnd(text, i) > 0
         THEN <<SubSeq(text, i, UriMatchEnd(text, i))>>
                  \o FindUris(text, UriMatchEnd(text, i) + 1)
         ELSE FindUris(text, i + 1)

\* The slot the if/elif chain files a URI under, "" for none
UriSlot(uri) ==
    IF ContainsSeq(uri, SlotFile("pure_strands")) THEN "pure_strands"
    ELSE IF ContainsSeq(uri, SlotFile("agentcore_ready")) THEN "agentcore_ready"
    ELSE IF ContainsSeq(uri, SlotFile("requirements")) THEN "requirements"
    ELSE ""

\* The s3_uris mapping: slot |-> the last URI of the response filed under it
extract_s3_uris_from_response(response_text) ==
    LET uris == FindUris(response_text, 1)
        found == {UriSlot(uris[i]) : i \in 1..Len(uris)} \ {""}
    IN  [s \in found |->
            uris[CHOOSE i \in 1..Len(uris) :
                     /\ UriSlot(uris[i]) = s
                     /\ \A j \in 1..Len(uris) : UriSlot(uris[j]) = s => j <= i]]


(***************************************************************************)
(* Artifact store client (S3CodeStorageService)                            *)
(***************************************************************************)

\* A stored object is named by <<safe session id, code type, extension>>,
\* which stands for the key temp-code/{safe id}/{code type}{extension}.
\* The store is a function from the keys present to their content.

\* c.isalnum() or c in '-_', for an identifier token
IsSafeIdTok(t) == t \in {"req", "1", "2", "_", "-"}

\* ''.join(c for c in session_id if c.isalnum() or c in '-_')
safe_session_id(session_id) == SelectSeq(session_id, IsSafeIdTok)

\* The outcomes of one call of the storage backend: it answers, it raises a
\* ClientError other than NoSuchKey, or something else raises (the client
\* cannot be built, the connection fails)
Faults == {"none", "ClientError", "Exception"}

\* A store_code_file that checks session id and content for emptiness only,
\* not for blanks
store_code_file_BlanksAccepted(st, session_id, code_content, code_type, file_extension, fault) ==
    IF \/ code_type \notin CodeTypes
       \/ session_id = <<>>
       \/ code_content = <<>>
       \/ safe_session_id(session_id) = <<>>
       \/ fault /= "none"
    THEN [store |-> st, status |-> "error"]
    ELSE LET key == <<safe_session_id(session_id), code_type, file_extension>>
         IN  [store |-> [k \in DOMAIN st \cup {key} |->
                            IF k = key THEN code_content ELSE st[k]],
              status |-> "success"]

\* store_code_file: the new store and the returned status
store_code_file(st, session_id, code_content, code_type, file_extension, fault) ==
    IF \/ code_type \notin CodeTypes
       \/ session_id = <<>> \/ Strip(session_id) = <<>>
       \/ code_content = <<>> \/ Strip(code_content) = <<>>
       \/ safe_session_id(session_id) = <<>>
       \/ fault /= "none"
    THEN [store |-> st, status |-> "error"]
    ELSE LET key == <<safe_session_id(session_id), code_type, file_extension>>
         IN  [store |-> [k \in DOMAIN st \cup {key} |->
                            IF k = key THEN code_content ELSE st[k]],
              status |-> "success"]

\* A get_code_file that does not tell a missing key from other backend errors
get_code_file_MissingIsError(st, session_id, code_type, fault) ==
    LET file_extension == IF code_type = "requirements" THEN ".txt" ELSE ".py"
        key == <<safe_session_id(session_id), code_type, file_extension>>
    IN  IF code_type \notin CodeTypes \/ safe_session_id(session_id) = <<>>
        THEN [status |-> "error", code_content |-> <<>>, error |-> "Unexpected error"]
        ELSE IF fault = "ClientError" \/ key \notin DOMAIN st
        THEN [status |-> "error", code_content |-> <<>>, error |-> "AWS S3 error"]
        ELSE IF fault = "Exception"
        THEN [status |-> "error", code_content |-> <<>>, error |-> "Unexpected error"]
        ELSE [status |-> "success", code_content |-> st[key], error |-> ""]

\* get_code_file: status and content
get_code_file(st, session_id, code_type, fault) ==
    LET file_extension == IF code_type = "requirements" THEN ".txt" ELSE ".py"
        key == <<safe_session_id(session_id), code_type, file_extension>>
    IN  IF code_type \notin CodeTypes \/ safe_session_id(session_id) = <<>>
        THEN [status |-> "error", code_content |-> <<>>, error |-> "Unexpected error"]
        ELSE IF fault = "ClientError"
        THEN [status |-> "error", code_content |-> <<>>, error |-> "AWS S3 error"]
        ELSE IF fault = "Exception"
        THEN [status |-> "error", code_content |-> <<>>, error |-> "Unexpected error"]
        ELSE IF key \in DOMAIN st
        THEN [status |-> "success", code_content |-> st[key], error |-> ""]
        ELSE [status |-> "not_found", code_content |-> <<>>,
              error |-> "Code file not found"]

\* AgentService._try_fetch_all_files: the slots whose get_code_file succeeds;
\* faults gives the backend outcome of each of the three calls
try_fetch_all_files(st, request_id, faults) ==
    {ct \in CodeTypes : get_code_file(st, request_id, ct, faults[ct]).status = "success"}

\* A fetch that tells a backend error from a missing key and treats the
\* error as an empty success, so that no fallback follows it
fetch_code_from_s3_ErrorEndsExtraction(st, request_id, code_type, fault) ==
    LET result == get_code_file(st, request_id, code_type, fault)
    IN  IF result.status \in {"success", "error"}
        THEN [success |-> TRUE, code |-> result.code_content, error |-> ""]
        ELSE [success |-> FALSE, code |-> <<>>, error |-> result.error]

\* AgentService._fetch_code_from_s3
fetch_code_from_s3(st, request_id, code_type, fault) ==
    LET result == get_code_file(st, request_id, code_type, fault)
    IN  IF result.status = "success"
        THEN [success |-> TRUE, code |-> result.code_content, error |-> ""]
        ELSE [success |-> FALSE, code |-> <<>>, error |-> result.error]


\* f"temp-code/{safe_session_id}/{code_type}{file_extension}": the key under
\* which the storage backend is asked to write or read an object
s3_key(safe_id, code_type, file_extension) ==
    <<"temp-code", "/">> \o safe_id \o <<"/", code_type, file_extension>>

\* The key store_code_file hands to put_object; <<>> when validation fails
\* before a key is built
StoreKey(session_id, code_content, code_type, file_extension) ==
    IF \/ code_type \notin CodeTypes
       \/ session_id = <<>> \/ Strip(session_id) = <<>>
       \/ code_content = <<>> \/ Strip(code_content) = <<>>
       \/ safe_session_id(session_id) = <<>>
    THEN <<>>
    ELSE s3_key(safe_session_id(session_id), code_type, file_extension)

\* The key get_code_file hands to get_object; <<>> when validation fails
\* before a key is built
GetKey(session_id, code_type) ==
    IF code_type \notin CodeTypes \/ safe_session_id(session_id) = <<>>
    THEN <<>>
    ELSE s3_key(safe_session_id(session_id), code_type,
                IF code_type = "requirements" THEN ".txt" ELSE ".py")

\* A list_session_files whose prefix is temp-code/ alone
list_session_files_AnySession(st, session_id, fault) ==
    IF safe_session_id(session_id) = <<>> \/ fault /= "none"
    THEN [status |-> "error", files |-> {}]
    ELSE [status |-> "success", files |-> DOMAIN st]

\* list_session_files: the objects whose key starts with
\* temp-code/{safe id}/ ; a safe id holds no "/", so these are the objects
\* stored under exactly that safe id
list_session_files(st, session_id, fault) ==
    IF safe_session_id(session_id) = <<>> \/ fault /= "none"
    THEN [status |-> "error", files |-> {}]
    ELSE [status |-> "success",
          files |-> {k \in DOMAIN st : k[1] = safe_session_id(session_id)}]

\* The rest of delete_session_files once the listing is known: failed are
\* the objects the backend reports under Errors, fault the outcome of the
\* delete_objects call itself
DeleteListed(st, listed, failed, fault) ==
    IF listed.status /= "success"
    THEN [store |-> st, status |-> "error", deleted_count |-> 0,
          total_files |-> 0, errors |-> {}]
    ELSE IF listed.files = {}
    THEN [store |-> st, status |-> "success", deleted_count |-> 0,
          total_files |-> 0, errors |-> {}]
    ELSE IF fault /= "none"
    THEN [store |-> st, status |-> "error", deleted_count |-> 0,
          total_files |-> 0, errors |-> {}]
    ELSE [store |-> [k \in DOMAIN st \ (listed.files \ failed) |-> st[k]],
          status |-> "success",
          deleted_count |-> Cardinality(listed.files \ failed),
          total_files |-> Cardinality(listed.files),
          errors |-> listed.files \cap failed]

\* delete_session_files: list, then one delete_objects call for all listed
delete_session_files(st, session_id, list_fault, failed, fault) ==
    DeleteListed(st, list_session_files(st, session_id, list_fault), failed, fault)


(***************************************************************************)
(* Re-emission of a streamed remote response                               *)
(* (AgentService._process_agentcore_response, streaming branch)            *)
(***************************************************************************)

\* A transport line is a sequence of tokens: "data: " is the six-character
\* SSE field prefix, "Q" a double quote, "a" and "b" letters, "7" a digit,
\* "SP" a blank, "ESC_N" a backslash followed by n, "0xFF" a byte that is not
\* valid UTF-8.  <<>> is an empty line.  "ESC_R" is a backslash followed by
\* r and "[FINAL]" the seven characters of the sentinel.  iter_lines splits
\* the body at line feeds and carriage returns, so no line holds either.
LineToks ==
    {"data: ", "Q", "a", "b", "7", "SP", "ESC_N", "ESC_R", "[FINAL]", "0xFF"}

\* line.decode("utf-8") succeeds
decodable(line) == \A i \in 1..Len(line) : line[i] /= "0xFF"

RECURSIVE JsonUnescape(_)
\* The characters of a JSON string body: the escape \n becomes a line feed
JsonUnescape(body) ==
    IF body = <<>> THEN <<>>
    ELSE <<CASE Head(body) = "ESC_N" -> "NL"
             [] Head(body) = "ESC_R" -> "CR"
             [] OTHER -> Head(body)>> \o JsonUnescape(Tail(body))

\* json.loads(chunk): ok is FALSE for JSONDecodeError; isstr tells a string
\* from a number
json_loads(chunk) ==
    LET c == Strip(chunk)
    IN  IF /\ Len(c) >= 2
           /\ c[1] = "Q"
           /\ c[Len(c)] = "Q"
           /\ \A i \in 2..(Len(c) - 1) : c[i] /= "Q"
        THEN [ok |-> TRUE, isstr |-> TRUE,
              text |-> JsonUnescape(SubSeq(c, 2, Len(c) - 1))]
        ELSE IF c /= <<>> /\ \A i \in 1..Len(c) : c[i] = "7"
        THEN [ok |-> TRUE, isstr |-> FALSE, text |-> <<>>]
        ELSE [ok |-> FALSE, isstr |-> FALSE, text |-> <<>>]

RECURSIVE EscapeNewlines(_)
\* text.replace('\n', '\\n').replace('\r', '\\r')
EscapeNewlines(text) ==
    IF text = <<>> THEN <<>>
    ELSE <<CASE Head(text) = "NL" -> "ESC_N"
             [] Head(text) = "CR" -> "ESC_R"
             [] OTHER -> Head(text)>> \o EscapeNewlines(Tail(text))

\* The chunks the generator yields.  A "frame" is  data: {payload}\n\n ,
\* a "line" is {payload}\n , the "final" frame is
\* data: [FINAL]{json}\n\n  with json.code = code and
\* json.metadata.request_id = request_id.  text is the decoded text a
\* content frame was built from.
Frame(payload, text) ==
    [kind |-> "frame", payload |-> payload, text |-> text,
     code |-> <<>>, request_id |-> <<>>]

LineChunk(decoded_line) ==
    [kind |-> "line", payload |-> decoded_line, text |-> <<>>,
     code |-> <<>>, request_id |-> <<>>]

RECURSIVE JsonEscape(_)
\* The body of the JSON string json.dumps writes for text: line feed,
\* carriage return, double quote and backslash are escaped
JsonEscape(text) ==
    IF text = <<>> THEN <<>>
    ELSE (CASE Head(text) = "NL" -> <<"ESC_N">>
            [] Head(text) = "CR" -> <<"ESC_R">>
            [] Head(text) = "Q" -> <<"ESC_Q">>
            [] Head(text) = "ESC_N" -> <<"ESC_BS", "n">>
            [] Head(text) = "ESC_R" -> <<"ESC_BS", "r">>
            [] OTHER -> <<Head(text)>>) \o JsonEscape(Tail(text))

\* The payload of the final frame: [FINAL] and json.dumps(final_response)
FinalPayload(full_content, request_id) ==
    <<"[FINAL]", "{success: true, code: ", "Q">> \o JsonEscape(full_content)
        \o <<"Q", ", metadata: {request_id: ", "Q">> \o JsonEscape(request_id)
        \o <<"Q", ", streaming: true, generation_method: agentcore_expert_streaming}}">>

FinalFrame(full_content, request_id) ==
    [kind |-> "final", payload |-> FinalPayload(full_content, request_id),
     text |-> <<>>, code |-> full_content, request_id |-> request_id]

\* The state of the generator before its first line
StreamStart == [full_content |-> <<>>, out |-> <<>>, alive |-> TRUE]

\* A data line whose text goes into the frame as it was decoded
YieldJsonText_Unescaped(st, text_content) ==
    [st EXCEPT !.full_content = @ \o text_content,
               !.out = Append(@, Frame(text_content, text_content))]

\* The JSON string chunk of a data line: += and the escaped frame
YieldJsonText(st, text_content) ==
    [st EXCEPT !.full_content = @ \o text_content,
               !.out = Append(@, Frame(EscapeNewlines(text_content), text_content))]

\* One iteration of  for line in response["response"].iter_lines()
\* An exception that is not JSONDecodeError leaves the loop for the handler
\* of the enclosing try, which ends the generator (alive = FALSE).
StreamStep(st, line) ==
    IF line = <<>> THEN st
    ELSE IF ~decodable(line) THEN [st EXCEPT !.alive = FALSE]
    ELSE IF Head(line) = "data: "
         THEN LET content_chunk == Tail(line)
                  j == json_loads(content_chunk)
              IN  IF j.ok /\ j.isstr THEN YieldJsonText(st, j.text)
                  ELSE IF j.ok THEN [st EXCEPT !.alive = FALSE]
                  ELSE [st EXCEPT !.full_content = @ \o content_chunk,
                                  !.out = Append(@, Frame(content_chunk, content_chunk))]
    ELSE IF Strip(line) = <<>>
         THEN [st EXCEPT !.out = Append(@, LineChunk(line))]
    ELSE [st EXCEPT !.full_content = @ \o line \o <<"NL">>,
                    !.out = Append(@, Frame(line, line))]

\* The end of the loop: the final metadata frame
StreamFinish(st, request_id) ==
    [st EXCEPT !.out = Append(@, FinalFrame(st.full_content, request_id)),
               !.alive = FALSE]

RECURSIVE StreamRun(_, _, _)
\* The whole streaming branch on the lines of a response: everything yielded
StreamRun(st, lines, request_id) ==
    IF ~st.alive THEN st.out
    ELSE IF lines = <<>> THEN StreamFinish(st, request_id).out
    ELSE StreamRun(StreamStep(st, Head(lines)), Tail(lines), request_id)


(***************************************************************************)
(* Response text and legacy extraction                                     *)
(***************************************************************************)

RECURSIVE JoinLines(_)
\* '\n'.join(text_parts)
JoinLines(parts) ==
    IF parts = <<>> THEN <<>>
    ELSE IF Len(parts) = 1 THEN parts[1]
    ELSE parts[1] \o <<"NL">> \o JoinLines(Tail(parts))

\* An agent result is [message_kind, parts]: message is a string (parts[1])
\* or a mapping {role, content: [{text: parts[1]}, ...]}.
extract_response_text_properly(result) ==
    IF result.message_kind = "str" THEN result.parts[1]
    ELSE JoinLines(result.parts)

RECURSIVE ReprEscape(_)
\* The body of repr(text) for a str: line feed, carriage return and backslash
\* are written as escapes
ReprEscape(text) ==
    IF text = <<>> THEN <<>>
    ELSE (CASE Head(text) = "NL" -> <<"ESC_N">>
            [] Head(text) = "CR" -> <<"ESC_R">>
            [] Head(text) = "ESC_N" -> <<"ESC_BS", "n">>
            [] Head(text) = "ESC_R" -> <<"ESC_BS", "r">>
            [] OTHER -> <<Head(text)>>) \o ReprEscape(Tail(text))

RECURSIVE ReprBlocks(_)
\* The items of repr([{'text': parts[1]}, ...])
ReprBlocks(parts) ==
    IF parts = <<>> THEN <<>>
    ELSE <<"{'text': '">> \o ReprEscape(Head(parts)) \o <<"'}">>
             \o (IF Len(parts) > 1 THEN <<", ">> ELSE <<>>)
             \o ReprBlocks(Tail(parts))

\* str(value) of the fallbacks: a str is itself, a mapping
\* {'content': [{'text': ...}, ...]} is written as its repr
str_of(value) ==
    IF value.message_kind = "str" THEN value.parts[1]
    ELSE <<"{'content': [">> \o ReprBlocks(value.parts) \o <<"]}">>

\* _extract_response_text_properly on any argument: arg tells an agent
\* result, whose message attribute is value, from a bare value (a str or a
\* mapping), which has no message attribute and is returned as str(result)
extract_response_text(arg, value) ==
    IF arg = "AgentResult" THEN extract_response_text_properly(value)
    ELSE str_of(value)

\* max(blocks, key=len): the first block of the greatest length
LongestBlock(blocks) ==
    blocks[CHOOSE i \in 1..Len(blocks) :
               /\ \A j \in 1..Len(blocks) : TextLen(blocks[j]) <= TextLen(blocks[i])
               /\ \A j \in 1..(i - 1) : TextLen(blocks[j]) < TextLen(blocks[i])]

\* The placeholder CodeService returns when it finds no code
NoCodePlaceholder == <<"# No Python code blocks found">>

\* CodeService._extract_code_from_text on plain text
extract_code_from_text(response) ==
    LET code_blocks == FencedBlocks(response, 1, "FENCE_PY", FALSE)
        generic == FencedBlocks(response, 1, "FENCE", FALSE)
        python_blocks == SelectSeq(generic,
                             LAMBDA b : Contains(b, "from strands import")
                                            \/ Contains(b, "import strands"))
    IN  IF code_blocks /= <<>> THEN LongestBlock(code_blocks)
        ELSE IF python_blocks /= <<>> THEN LongestBlock(python_blocks)
        ELSE NoCodePlaceholder

\* CodeService.extract_python_code on result.message: a string goes to
\* _extract_code_from_text; a mapping has neither final_working_code nor
\* generated_code, so its printed form goes there, which is parsed back and
\* replaced by the text of its first content block
extract_python_code(result) == extract_code_from_text(result.parts[1])


(***************************************************************************)
(* Inputs of the generation pipeline                                       *)
(***************************************************************************)

\* The correlation id of the request, req_{hex}
RequestId == <<"req", "_", "1">>

\* The storage URI of the request's primary slot, as the agent reports it
PrimaryUri ==
    <<"s3", "://", "bucket", "/", "temp-code", "/">> \o RequestId
        \o <<"/">> \o SlotFile("pure_strands")

\* A fenced block tagged python with an import line and more than 50 characters
FencedCode ==
    <<"Here is the code:", "NL", "FENCE_PY", "NL", "from strands import Agent",
      "NL", "Agent(m)", "NL", "LONG", "NL", "FENCE", "NL">>

\* The responses the local model gives
ModelTexts ==
    { FencedCode,
      <<"Here is the code:", "NL", "NL", "import strands", "NL", "LONG", "NL", "NL", "# ok">>,
      <<"FENCE_PY", "NL", "x = 1", "NL", "FENCE">>,
      <<"FENCE_PY", "NL", "from strands import Agent", "NL", "eval(x)", "NL",
        "input()", "NL", "LONG", "NL", "FENCE">>,
      <<"FENCE_PY", "NL", "from strands import Agent", "ESC_N", "LONG", "NL", "FENCE">>,
      <<"Here is the code:">>,
      <<"Here is the code:", "SP">> \o PrimaryUri \o <<"NL">>,
      <<"Here is the code:", "SP">> \o PrimaryUri \o <<"NL">> \o FencedCode }

\* The results of a local agent call
AgentResults ==
    [message_kind : {"str", "content_list"}, parts : {<<t>> : t \in ModelTexts}]

\* What the agent's storage tool writes under the correlation id
StoredCode ==
    <<"import strands", "CR", "NL", "Agent(m)", "NL", "NL", "NL", "NL", "LONG">>

\* The sets of slots an agent run writes with its storage tool
ToolWrites ==
    { {}, {"pure_strands"}, {"agentcore_ready"},
      {"pure_strands", "agentcore_ready", "requirements"} }

RECURSIVE WriteSlots(_, _, _)
\* The agent's s3_write_code calls for a set of slots
WriteSlots(st, session_id, slots) ==
    IF slots = {} THEN st
    ELSE LET ct == CHOOSE x \in slots : TRUE
         IN  WriteSlots(store_code_file(st, session_id, StoredCode, ct,
                                        IF ct = "requirements" THEN ".txt" ELSE ".py",
                                        "none").store,
                        session_id, slots \ {ct})

\* The longest streamed response, in lines
MaxStreamLines == 2

\* The lines a transport delivers: a JSON string chunk, a JSON string chunk
\* with an escaped line feed, a JSON string chunk with an escaped carriage
\* return after the text [FINAL], a chunk that is not JSON, a JSON number, an
\* empty line, a line of one blank, and a line without the SSE prefix
SampleLines ==
    { <<"data: ", "Q", "a", "Q">>,
      <<"data: ", "Q", "b", "ESC_N", "Q">>,
      <<"data: ", "Q", "[FINAL]", "ESC_R", "Q">>,
      <<"data: ", "a">>,
      <<"data: ", "7">>,
      <<>>,
      <<"SP">>,
      <<"a", "b">> }

\* The lines of the streamed remote responses
StreamedLines == UNION {[1..n -> SampleLines] : n \in 0..MaxStreamLines}

\* The decoded payload of a buffered remote response: no event at all, a
\* mapping without 'result', a result mapping with generated_code, or a raw
\* result text
NoPayload ==
    [shape |-> "no_events", configuration_analysis |-> <<>>, generated_code |-> <<>>,
     testing_verification |-> <<>>, final_working_code |-> <<>>, text |-> <<>>]

BufferedPayloads ==
    { NoPayload,
      [NoPayload EXCEPT !.shape = "no_result"],
      [NoPayload EXCEPT !.shape = "structured",
                        !.configuration_analysis = <<"# ok">>,
                        !.generated_code = <<"x = 1">>,
                        !.testing_verification = <<"# ok", "SP", "# ok">>,
                        !.final_working_code = <<"from strands import Agent", "NL", "Agent(m)">>],
      [NoPayload EXCEPT !.shape = "raw", !.text = FencedCode],
      [NoPayload EXCEPT !.shape = "raw", !.text = <<"Here is the code:">>] }

\* What invoke_agent_runtime returns
RemoteResponses ==
    {[contentType |-> "text/event-stream", lines |-> l, payload |-> NoPayload] :
         l \in StreamedLines}
    \cup {[contentType |-> "application/json", lines |-> <<>>, payload |-> pl] :
              pl \in BufferedPayloads}

NoResponse == [contentType |-> "", lines |-> <<>>, payload |-> NoPayload]


(***************************************************************************)
(* State                                                                   *)
(***************************************************************************)

VARIABLES
    pc,          \* where the /generate-code handler of the request stands
    request,     \* the request: its stream flag and correlation id
    agentcore,   \* what _try_agentcore_expert_agent did for the request
    svc,         \* what generate_code_freeform returned or raised
    local,       \* what the local path and the legacy path did
    store,       \* the artifact store: key |-> content
    reply,       \* what the endpoint answered
    sessions,    \* AgentCoreInvocationService.sessions: session id |-> session
    issued,      \* how many random (uuid4) session ids have been drawn
    invocation,  \* what the last call on the invocation service did
    s3call,      \* what the last call on the artifact store client did
    resolver,    \* ModelIDService: its region cache and default-model cache
    model,       \* what the last call on the model id service did
    expert,      \* AgentService: the model its shared expert agent is set to
    applied      \* the last text function applied, its input and its output

vars == <<pc, request, agentcore, svc, local, store, reply,
          sessions, issued, invocation, s3call, resolver, model, expert, applied>>

\* The state of the chat invocation service
chat_vars == <<sessions, issued, invocation>>

\* The state of a /generate-code request and the artifact store
pipeline_vars == <<pc, request, agentcore, svc, local, store, reply, expert>>

\* The state of a /generate-code request without the artifact store
request_vars == <<pc, request, agentcore, svc, local, reply, expert>>

\* The record of the last artifact store call
storage_vars == <<s3call>>

\* The state of the model id service
model_vars == <<resolver, model>>

\* The record of the last text function applied
text_vars == <<applied>>

\* The mapping generate_code_freeform returns (metadata flattened)
NoResult ==
    [configuration_analysis |-> <<>>, generated_code |-> <<>>,
     testing_verification |-> <<>>, final_working_code |-> <<>>,
     generation_method |-> "", request_id |-> <<>>,
     security_validation |-> <<>>]

NoAgentcore ==
    [flag |-> FALSE, arn |-> FALSE, invoked |-> FALSE, raised |-> FALSE,
     response |-> NoResponse]

NoLocal ==
    [model_calls |-> 0, response_text |-> <<>>, s3_uris |-> {},
     fetch |-> "none", regex |-> FALSE, legacy |-> FALSE,
     success |-> FALSE, code |-> <<>>]

NoReply ==
    [kind |-> "none", success |-> FALSE, code |-> <<>>, generation_method |-> "",
     request_id |-> <<>>, configuration_analysis |-> <<>>,
     testing_verification |-> <<>>, chunks |-> <<>>]

\* No call has been made on the invocation service yet
NoInvocation ==
    [op |-> "none", session_id |-> <<>>, status |-> "none", invoked |-> FALSE,
     outcome |-> "none", response |-> <<>>, user_at |-> 0,
     agent_runtime_arn |-> <<>>, user_email |-> <<>>]

\* No call has been made on the artifact store client yet
NoS3Call ==
    [op |-> "none", session_id |-> <<>>, code_type |-> "", code_content |-> <<>>,
     key |-> <<>>, fault |-> "none", status |-> "none", files |-> {},
     deleted_count |-> 0, errors |-> {}]

\* AgentService after initialize(): the expert agent is set to the system
\* default model
StartupAgent == [current_model_id |-> <<"u", "s", ".", "anthropic", ".", "claude">>]

\* The effective model ids the router hands to generate_code_freeform: the
\* system default or a user's preference, with their regional prefix
EffectiveModelIds ==
    {<<"u", "s", ".", "anthropic", ".", "claude">>, <<"u", "s", ".", "amazon", ".", "nova">>}

\* AgentService._ensure_correct_model, the update succeeding: the shared
\* agent is switched when the request names another model than the current
ensure_correct_model(agent, requested_model_id) ==
    IF requested_model_id = <<>> \/ requested_model_id = agent.current_model_id
    THEN agent
    ELSE [agent EXCEPT !.current_model_id = requested_model_id]

\* No text function has been applied yet: output is the text the function
\* returned, again what it returned when applied to its own output,
\* arg the kind of argument _extract_response_text_properly was given,
\* extraction the mapping _extract_code_with_fallbacks returned
NoApplication ==
    [fn |-> "none", arg |-> "none", input |-> <<>>, output |-> <<>>, again |-> <<>>,
     extraction |-> TryMethods({}, <<>>)]

\* ModelIDService.__init__: both caches empty
NoCaches == [region |-> <<>>, default_model |-> <<>>]

\* No call has been made on the model id service yet
NoModelCall ==
    [op |-> "none", request_model_id |-> <<>>, user_model_id |-> <<>>,
     default_model_id |-> <<>>, model_id |-> <<>>, once |-> <<>>, again |-> <<>>,
     effective |-> <<>>]

\* The services after construction and startup
InitServices ==
    /\ pc = "idle"
    /\ request = [stream |-> FALSE, request_id |-> <<>>, model_id |-> <<>>]
    /\ agentcore = NoAgentcore
    /\ svc = [kind |-> "none", result |-> NoResult]
    /\ local = NoLocal
    /\ store = <<>>
    /\ reply = NoReply
    /\ sessions = <<>>
    /\ issued = 0
    /\ invocation = NoInvocation
    /\ s3call = NoS3Call
    /\ resolver = NoCaches
    /\ model = NoModelCall
    /\ expert = StartupAgent

Init ==
    /\ InitServices
    /\ applied = NoApplication

(***************************************************************************)
(* routers/code.py generate_code: entry                                    *)
(***************************************************************************)

\* The handler draws the correlation id and calls generate_code_freeform,
\* with stream=True when the request asks for streaming; without streaming
\* the generation mode "structured" goes to the legacy method at once
generate_code ==
    /\ pc = "idle"
    /\ \E stream \in BOOLEAN, generation_mode \in {"freeform", "structured"},
          model_id \in EffectiveModelIds :
           /\ request' = [stream |-> stream, request_id |-> RequestId,
                          model_id |-> model_id]
           /\ pc' = IF ~stream /\ generation_mode = "structured"
                    THEN "legacy"
                    ELSE "try_agentcore"
    /\ UNCHANGED <<agentcore, svc, local, store, reply>>
    /\ UNCHANGED <<expert, chat_vars, storage_vars, model_vars, text_vars>>

(***************************************************************************)
(* AgentService._try_agentcore_expert_agent and the test of its result in  *)
(* generate_code_freeform                                                  *)
(***************************************************************************)

\* _process_agentcore_response contains yield statements, so calling it runs
\* none of its body and returns a generator object.  The result of
\* _try_agentcore_expert_agent is therefore None (flag off, no ARN, or the
\* invocation raised) or a generator, which is true in  if agentcore_result:
AgentcoreReturns(flag, arn, raised, response, writes) ==
    /\ agentcore' = [flag |-> flag, arn |-> arn, invoked |-> flag /\ arn,
                     raised |-> raised, response |-> response]
    /\ store' = WriteSlots(store, request.request_id, writes)
    /\ IF flag /\ arn /\ ~raised
       THEN /\ svc' = [kind |-> "generator", result |-> NoResult]
            /\ pc' = "router"
       ELSE /\ svc' = svc
            /\ pc' = "local_generate"
    /\ UNCHANGED <<request, local, reply>>
    /\ UNCHANGED <<expert, chat_vars, storage_vars, model_vars, text_vars>>

try_agentcore_expert_agent ==
    /\ pc = "try_agentcore"
    /\ \/ AgentcoreReturns(FALSE, FALSE, FALSE, NoResponse, {})
       \/ AgentcoreReturns(TRUE, FALSE, FALSE, NoResponse, {})
       \/ \E w \in ToolWrites : AgentcoreReturns(TRUE, TRUE, TRUE, NoResponse, w)
       \/ \E r \in RemoteResponses, w \in ToolWrites :
              AgentcoreReturns(TRUE, TRUE, FALSE, r, w)


(***************************************************************************)
(* AgentService.generate_code_freeform: the local path                     *)
(***************************************************************************)

\* _ensure_correct_model, get_agent, the prompt, agent(prompt) and
\* _extract_response_text_properly.  The agent call raises, or returns a
\* result after the agent's storage tool wrote some slots under the
\* correlation id pinned in the prompt.
local_generate ==
    /\ pc = "local_generate"
    /\ \/ /\ local' = [local EXCEPT !.model_calls = @ + 1]
          /\ svc' = [kind |-> "raised", result |-> NoResult]
          /\ pc' = "router"
          /\ store' = store
       \/ \E r \in AgentResults, w \in ToolWrites :
              /\ local' = [local EXCEPT
                               !.model_calls = @ + 1,
                               !.response_text = extract_response_text_properly(r)]
              /\ store' = WriteSlots(store, request.request_id, w)
              /\ svc' = svc
              /\ pc' = "local_extract"
    /\ UNCHANGED <<request, agentcore, reply>>
    /\ expert' = ensure_correct_model(expert, request.model_id)
    /\ UNCHANGED <<chat_vars, storage_vars, model_vars, text_vars>>

\* Lines 586-591: the storage references of the response, or those of the
\* proactive probe when there are none
FoundUris(found, st, request_id, faults) ==
    IF found = {} /\ request_id /= <<>>
    THEN try_fetch_all_files(st, request_id, faults)
    ELSE found

\* An extraction that prefers the regex strategies and reads the store only
\* when they fail
ChooseExtraction_RegexFirst(s3_uris, use_s3, status, fetched, fallback) ==
    [s3_uris |-> s3_uris,
     fetch |-> IF use_s3 THEN status ELSE "none",
     regex |-> TRUE,
     success |-> fallback.success \/ (use_s3 /\ fetched.success),
     code |-> IF ~fallback.success /\ use_s3 /\ fetched.success
              THEN fetched.code ELSE fallback.code]

\* Lines 593-602: the stored code when the fetch of the primary slot
\* succeeded, else the regex extraction.  status is the status get_code_file
\* gave, fetched the result of _fetch_code_from_s3, fallback that of
\* _extract_code_with_fallbacks.
ChooseExtraction(s3_uris, use_s3, status, fetched, fallback) ==
    [s3_uris |-> s3_uris,
     fetch |-> IF use_s3 THEN status ELSE "none",
     regex |-> ~(use_s3 /\ fetched.success),
     success |-> IF use_s3 /\ fetched.success THEN TRUE ELSE fallback.success,
     code |-> IF use_s3 /\ fetched.success THEN fetched.code ELSE fallback.code]

\* Lines 593-602 given the storage references
ExtractWith(s3_uris, st, response_text, request_id, fault) ==
    ChooseExtraction(s3_uris,
                     s3_uris /= {} /\ request_id /= <<>>,
                     get_code_file(st, request_id, "pure_strands", fault).status,
                     fetch_code_from_s3(st, request_id, "pure_strands", fault),
                     extract_code_with_fallbacks(response_text))

\* Lines 585-605: storage references, the proactive probe, the fetch of the
\* primary slot and the fall back to regex extraction.  faults gives the
\* backend outcome of each probe call, fault that of the fetch.
LocalExtraction(st, response_text, request_id, faults, fault) ==
    ExtractWith(FoundUris(DOMAIN extract_s3_uris_from_response(response_text),
                          st, request_id, faults),
                st, response_text, request_id, fault)

\* A return that raises when the scan recorded an issue
FreeformReturn_UnsafeBlocked(success, final_code, security_validation) ==
    IF success /\ security_validation.is_safe
    THEN [kind |-> "dict",
          result |-> [NoResult EXCEPT !.generated_code = final_code,
                                      !.final_working_code = final_code,
                                      !.generation_method = "free_form",
                                      !.security_validation = <<security_validation>>]]
    ELSE [kind |-> "raised", result |-> NoResult]

\* Lines 604-632: raise ValueError when the extraction failed, else the
\* metadata with the security validation, the cleanup and the returned
\* mapping
FreeformReturn(success, final_code, security_validation) ==
    IF success
    THEN [kind |-> "dict",
          result |-> [NoResult EXCEPT !.generated_code = final_code,
                                      !.final_working_code = final_code,
                                      !.generation_method = "free_form",
                                      !.security_validation = <<security_validation>>]]
    ELSE [kind |-> "raised", result |-> NoResult]

\* What the extraction ce leaves behind
Extracted(ce) ==
    /\ local' = [local EXCEPT !.s3_uris = ce.s3_uris,
                              !.fetch = ce.fetch,
                              !.regex = ce.regex,
                              !.success = ce.success,
                              !.code = ce.code]
    /\ svc' = FreeformReturn(ce.success, cleanup_code_formatting(ce.code),
                             validate_generated_code_security(ce.code))

\* Lines 585-632: extraction, then the cleanup and the returned mapping
local_extract ==
    /\ pc = "local_extract"
    /\ \E faults \in [CodeTypes -> {"none", "ClientError"}], fault \in Faults :
           Extracted(LocalExtraction(store, local.response_text,
                                     request.request_id, faults, fault))
    /\ pc' = "router"
    /\ UNCHANGED <<request, agentcore, store, reply>>
    /\ UNCHANGED <<expert, chat_vars, storage_vars, model_vars, text_vars>>

(***************************************************************************)
(* routers/code.py generate_code: after generate_code_freeform             *)
(***************************************************************************)

\* Everything the generator of _process_agentcore_response yields when it is
\* iterated: the streaming branch yields, every other branch returns without
\* a yield
GeneratorChunks(response, request_id, stream) ==
    IF response.contentType = "text/event-stream" /\ stream
    THEN StreamRun(StreamStart, response.lines, request_id)
    ELSE <<>>

\* The keys of the returned mapping, which is what iterating it gives
ResultKeys ==
    <<"configuration_analysis", "generated_code", "testing_verification",
      "final_working_code", "reasoning_process", "metadata">>

KeyChunk(k) ==
    [kind |-> "key", payload |-> <<k>>, text |-> <<>>, code |-> <<>>,
     request_id |-> <<>>]

\* CodeGenerationResponse(success=True, code, metadata)
SuccessReply(code, result, request_id) ==
    [NoReply EXCEPT !.kind = "json", !.success = TRUE, !.code = code,
                    !.generation_method = result.generation_method,
                    !.request_id = request_id,
                    !.configuration_analysis = result.configuration_analysis,
                    !.testing_verification = result.testing_verification]

\* CodeGenerationResponse(success=False, error="Code generation error")
ErrorReply == [NoReply EXCEPT !.kind = "json"]

\* Lines 117-149 and 178-213, stream off: the returned mapping is read by
\* subscript.  A generator is not subscriptable and a raised exception
\* arrives here too: both are caught and the legacy method takes over.
router_freeform ==
    /\ pc = "router"
    /\ ~request.stream
    /\ IF svc.kind = "dict"
       THEN /\ reply' = SuccessReply(
                            IF svc.result.final_working_code /= <<>>
                            THEN svc.result.final_working_code
                            ELSE svc.result.generated_code,
                            svc.result, request.request_id)
            /\ pc' = "done"
       ELSE /\ reply' = reply
            /\ pc' = "legacy"
    /\ UNCHANGED <<request, agentcore, svc, local, store>>
    /\ UNCHANGED <<expert, chat_vars, storage_vars, model_vars, text_vars>>

\* Lines 151-228: the legacy method calls the local agent with the legacy
\* prompt, which carries no correlation id, and parses with CodeService
legacy_generate ==
    /\ pc = "legacy"
    /\ \/ /\ local' = [local EXCEPT !.model_calls = @ + 1, !.legacy = TRUE]
          /\ reply' = ErrorReply
       \/ \E r \in AgentResults :
              /\ local' = [local EXCEPT !.model_calls = @ + 1, !.legacy = TRUE]
              /\ reply' = SuccessReply(extract_python_code(r),
                                       [NoResult EXCEPT !.generation_method = "legacy"],
                                       request.request_id)
    /\ pc' = "done"
    /\ UNCHANGED <<request, agentcore, svc, store>>
    /\ UNCHANGED <<expert, chat_vars, storage_vars, model_vars, text_vars>>

\* Lines 77-115 and 215-228, stream on: an exception of
\* generate_code_freeform gives the error response; otherwise whatever was
\* returned is iterated and each item is written to the response
router_stream ==
    /\ pc = "router"
    /\ request.stream
    /\ reply' =
           CASE svc.kind = "raised" -> ErrorReply
             [] svc.kind = "dict" ->
                    [NoReply EXCEPT !.kind = "stream",
                                    !.chunks = [i \in 1..Len(ResultKeys) |->
                                                   KeyChunk(ResultKeys[i])]]
             [] svc.kind = "generator" ->
                    [NoReply EXCEPT !.kind = "stream",
                                    !.chunks = GeneratorChunks(agentcore.response,
                                                               request.request_id, TRUE)]
    /\ pc' = "done"
    /\ UNCHANGED <<request, agentcore, svc, local, store>>
    /\ UNCHANGED <<expert, chat_vars, storage_vars, model_vars, text_vars>>

Next ==
    \/ generate_code
    \/ try_agentcore_expert_agent
    \/ local_generate
    \/ local_extract
    \/ router_freeform
    \/ legacy_generate
    \/ router_stream

Spec == Init /\ [][Next]_vars


(***************************************************************************)
(* Properties of the generation pipeline                                   *)
(***************************************************************************)

\* The remote attempt ended without a remote agent having been invoked
RemoteUnavailable == ~agentcore.flag \/ ~agentcore.arn

\* The remote agent was invoked and the invocation raised, or the processing
\* of its response fails: no event, no 'result' key, or a streamed response
\* whose re-emission breaks off before the final frame
BreaksOff(out) == out = <<>> \/ out[Len(out)].kind /= "final"

ProcessingFails(response) ==
    IF response.contentType = "text/event-stream"
    THEN BreaksOff(StreamRun(StreamStart, response.lines, RequestId))
    ELSE response.payload.shape \in {"no_events", "no_result"}

RemoteFailed ==
    /\ agentcore.invoked
    /\ agentcore.raised \/ ProcessingFails(agentcore.response)

\* The key of the request's primary slot
PrimaryKey == <<RequestId, "pure_strands", ".py">>

\* C1: at the end of every request handled by generate_code_freeform
\* exactly one of the remote path and the local path has produced the
\* result: when generate_code_freeform returned
\* the remote result the local model was never called, and the legacy method
\* (a third path) never ran.
C1_ExactlyOnePath ==
    (pc = "done" /\ svc.kind /= "none") =>
        /\ svc.kind = "generator" => local.model_calls = 0
        /\ svc.kind = "dict" => ~agentcore.invoked \/ agentcore.raised
        /\ ~local.legacy

\* C2: whenever the remote path is unavailable or fails, generate_code_freeform
\* goes on to the local path (it does not return the remote object), and an
\* error answer is only ever caused by the local model.
C2_SilentFallback ==
    (pc = "done" /\ svc.kind /= "none" /\ (RemoteUnavailable \/ RemoteFailed)) =>
        /\ svc.kind \in {"dict", "raised"}
        /\ (reply.kind = "json" /\ ~reply.success) => local.model_calls >= 1

\* C3: for a request without streaming whose remote invocation returned a
\* buffered payload with generated_code, generate_code_freeform returns the
\* mapping built from the payload, tagged agentcore_expert and carrying the
\* request's correlation id.
C3_RemotePassThrough ==
    ( /\ pc \in {"router", "legacy", "done"}
      /\ ~request.stream
      /\ agentcore.invoked /\ ~agentcore.raised
      /\ agentcore.response.contentType = "application/json"
      /\ agentcore.response.payload.shape = "structured" ) =>
        /\ svc.kind = "dict"
        /\ svc.result =
               [configuration_analysis |-> agentcore.response.payload.configuration_analysis,
                generated_code |-> agentcore.response.payload.generated_code,
                testing_verification |-> agentcore.response.payload.testing_verification,
                final_working_code |-> agentcore.response.payload.final_working_code,
                generation_method |-> "agentcore_expert",
                request_id |-> request.request_id]

\* C4: a request whose local path failed (the model call raised or every
\* extraction strategy failed) calls the model no second time and is answered
\* with success = false and no code.
C4_LocalFailureIsTerminal ==
    (pc = "done" /\ svc.kind = "raised") =>
        /\ local.model_calls <= 1
        /\ reply.kind = "json"
        /\ ~reply.success
        /\ reply.code = <<>>

\* The response of the local model names the primary-slot file in a storage
\* URI and the store holds content at the request's primary slot
UriAndStoredCode ==
    /\ pc \in {"router", "legacy", "done"}
    /\ svc.kind \in {"dict", "raised"}
    /\ local.response_text /= <<>>
    /\ ContainsSeq(local.response_text, PrimaryUri)
    /\ PrimaryKey \in DOMAIN store

\* The local path returned the stored primary-slot content, cleaned up,
\* without calling the regex extraction
ResultIsStoredCode ==
    /\ svc.kind = "dict"
    /\ svc.result.final_working_code = cleanup_code_formatting(store[PrimaryKey])
    /\ svc.result.generated_code = cleanup_code_formatting(store[PrimaryKey])
    /\ ~local.regex
    /\ (pc = "done" /\ ~request.stream) =>
           /\ reply.success
           /\ reply.code = cleanup_code_formatting(store[PrimaryKey])

Fetched ==
    /\ pc \in {"router", "legacy", "done"}
    /\ svc.kind \in {"dict", "raised"}
    /\ local.fetch /= "none"

Placeholders ==
    {NoCodePlaceholder, <<"Code stored in S3">>, <<"Code generated by AgentCore">>}

\* C8: no request is answered with success = true and a fabricated
\* placeholder as its code.
C8_NoPlaceholderSuccess ==
    (pc = "done" /\ reply.kind = "json" /\ reply.success) =>
        reply.code \notin Placeholders

(***************************************************************************)
(* Properties of the streamed remote path                                  *)
(***************************************************************************)

\* The request was answered by iterating the generator over a streamed
\* remote response
Streamed ==
    /\ pc = "done"
    /\ reply.kind = "stream"
    /\ svc.kind = "generator"
    /\ agentcore.response.contentType = "text/event-stream"

RECURSIVE ContentText(_)
\* The decoded text of the content frames of chunks, concatenated in order
ContentText(chunks) ==
    IF chunks = <<>> THEN <<>>
    ELSE (IF Head(chunks).kind = "frame" THEN Head(chunks).text ELSE <<>>)
             \o ContentText(Tail(chunks))

\* C9: a streamed remote response ends with exactly one final frame, its
\* last frame, whose code is the concatenation, in order, of the decoded
\* text of every content frame emitted before it, whatever the lines were.
C9_FinalFrameAccumulates ==
    Streamed =>
        LET c == reply.chunks
        IN  /\ Len(c) >= 1
            /\ c[Len(c)].kind = "final"
            /\ \A i \in 1..(Len(c) - 1) : c[i].kind /= "final"
            /\ c[Len(c)].code = ContentText(SubSeq(c, 1, Len(c) - 1))

IsDataLine(line) == line /= <<>> /\ Head(line) = "data: "

IsBlankLine(line) == Strip(line) = <<>>

RECURSIVE NotFinal(_)
\* The chunks of a stream other than its final frame
NotFinal(chunks) ==
    IF chunks = <<>> THEN <<>>
    ELSE (IF Head(chunks).kind = "final" THEN <<>> ELSE <<Head(chunks)>>)
             \o NotFinal(Tail(chunks))

\* C10: in a streamed remote response made of data lines and blank lines,
\* the i-th incoming line gives the i-th re-emitted chunk: a content frame
\* for a data line, the line itself for a blank line.
C10_FrameCountAndOrder ==
    (/\ Streamed
     /\ \A i \in 1..Len(agentcore.response.lines) :
            \/ IsDataLine(agentcore.response.lines[i])
            \/ IsBlankLine(agentcore.response.lines[i]))
    => LET lines == agentcore.response.lines
           c == NotFinal(reply.chunks)
       IN  /\ Len(c) = Len(lines)
           /\ \A i \in 1..Len(lines) :
                  IF IsDataLine(lines[i])
                  THEN c[i].kind = "frame"
                  ELSE c[i] = LineChunk(lines[i])

\* A raw line feed or carriage return
IsLineBreak(t) == t \in {"NL", "CR"}

\* C11: in every frame the streamed remote path emits, content or final, the
\* payload between  data:  and the closing blank line holds no raw line feed
\* and no raw carriage return.
C11_SingleLineFrames ==
    Streamed =>
        \A i \in 1..Len(reply.chunks) :
            reply.chunks[i].kind \in {"frame", "final"} =>
                \A j \in 1..Len(reply.chunks[i].payload) :
                    ~IsLineBreak(reply.chunks[i].payload[j])

\* A stream whose decoded text held a carriage return, escaped in its
\* content frame and again in the final frame
C11_Witness ==
    /\ Streamed
    /\ Len(reply.chunks) = 2
    /\ reply.chunks[1].kind = "frame"
    /\ \E j \in 1..Len(reply.chunks[1].text) : IsLineBreak(reply.chunks[1].text[j])
    /\ reply.chunks[2].kind = "final"
    /\ \E j \in 1..Len(reply.chunks[2].code) : IsLineBreak(reply.chunks[2].code[j])

\* The payload begins with the sentinel
HasSentinel(chunk) == chunk.payload /= <<>> /\ Head(chunk.payload) = "[FINAL]"

\* C12: in a streamed call the final frame is the only emitted frame whose
\* payload begins with [FINAL].
C12_SentinelOnlyOnFinal ==
    Streamed =>
        \A i \in 1..Len(reply.chunks) :
            HasSentinel(reply.chunks[i]) <=> reply.chunks[i].kind = "final"

(***************************************************************************)
(* The chat invocation service (agentcore_invocation_service.py)           *)
(***************************************************************************)

\* The number of messages the session table holds, and the number of random
\* ids drawn
MaxMessages == 2
MaxUuids == 1

\* The signed-in users and the deployed agents; <<>> is a missing value
\* (None or the empty string)
UserEmails == {<<"alice">>, <<"bob">>}
AgentArns == {<<"arn", ":", "agent1">>}

\* generate_user_session_id: session-{sha256(email:arn)[:24]}-chat.  The
\* digest is represented by the text it is computed from.
generate_user_session_id(user_email, agent_runtime_arn) ==
    <<"session-">> \o user_email \o <<":">> \o agent_runtime_arn \o <<"-chat">>

\* str(uuid.uuid4()): the n-th random id
uuid4(n) == <<"uuid", n>>

\* ChatSession(session_id, agent_runtime_arn): messages [] and is_active True
NewSession(agent_runtime_arn) ==
    [agent_runtime_arn |-> agent_runtime_arn, messages |-> <<>>, is_active |-> TRUE]

\* ChatMessage(type, content, status), status 'sent' by default
ChatMessage(type, content, status) ==
    [type |-> type, content |-> content, status |-> status]

\* tbl with key k set to v, whether or not k is in its domain
Put(tbl, k, v) ==
    [x \in DOMAIN tbl \cup {k} |-> IF x = k THEN v ELSE tbl[x]]

\* A create_chat_session that never looks for a session to resume
CreateChatSession_AlwaysFresh(tbl, n, agent_runtime_arn, user_email) ==
    IF user_email = <<>>
    THEN [session_id |-> uuid4(n + 1),
          sessions |-> Put(tbl, uuid4(n + 1), NewSession(agent_runtime_arn)),
          issued |-> n + 1]
    ELSE [session_id |-> generate_user_session_id(user_email, agent_runtime_arn),
          sessions |-> Put(tbl, generate_user_session_id(user_email, agent_runtime_arn),
                           NewSession(agent_runtime_arn)),
          issued |-> n]

\* create_chat_session as a function of the table and the number of random
\* ids drawn so far: the id returned, the table and the count afterwards
CreateChatSession(tbl, n, agent_runtime_arn, user_email) ==
    IF user_email = <<>>
    THEN [session_id |-> uuid4(n + 1),
          sessions |-> Put(tbl, uuid4(n + 1), NewSession(agent_runtime_arn)),
          issued |-> n + 1]
    ELSE LET session_id == generate_user_session_id(user_email, agent_runtime_arn)
         IN  IF session_id \in DOMAIN tbl
             THEN [session_id |-> session_id, sessions |-> tbl, issued |-> n]
             ELSE [session_id |-> session_id,
                   sessions |-> Put(tbl, session_id, NewSession(agent_runtime_arn)),
                   issued |-> n]

\* What get_agent_runtime does: it returns a runtime with a status (UNKNOWN
\* when the field is missing), or raises a ClientError with a code, or
\* raises something else
RuntimeStatuses == {"ACTIVE", "READY", "FAILED", "CREATING", "UNKNOWN", "UPDATING"}
StatusLookups ==
    RuntimeStatuses \cup {"ResourceNotFoundException", "AccessDeniedException", "Exception"}

\* The lookups and the invocation outcomes drawn
SampleLookups ==
    {"ACTIVE", "FAILED", "ResourceNotFoundException"}
SampleOutcomes == {"ok", "RuntimeClientError_starting", "Exception"}

\* What invoke_agent_runtime does: it answers, or raises a ClientError, or
\* raises something else
InvokeOutcomes ==
    {"ok", "RuntimeClientError_starting", "RuntimeClientError", "ClientError", "Exception"}

\* result.get('result', 'No response') of the processed response
ResponseTexts == {<<"reply">>}

RECURSIVE SumLen(_, _)
\* The number of messages in the sessions ids of tbl
SumLen(tbl, ids) ==
    IF ids = {} THEN 0
    ELSE LET k == CHOOSE x \in ids : TRUE
         IN  Len(tbl[k].messages) + SumLen(tbl, ids \ {k})

MessageCount(tbl) == SumLen(tbl, DOMAIN tbl)

\* Lines 139-186, the status check.  Every raise of the try block (FAILED,
\* CREATING, a status that is neither ACTIVE, READY nor UNKNOWN) is an
\* Exception raised inside the try, which the handler  except Exception  of
\* the same try catches and logs.  Only the raise in the ClientError
\* handler, for ResourceNotFoundException, leaves the statement.
check_agent_status(lookup) ==
    CASE lookup = "ResourceNotFoundException" -> "raise"
      [] lookup \in {"AccessDeniedException", "Exception"} -> "proceed"
      [] lookup \in {"FAILED", "CREATING"} -> "proceed"
      [] lookup \in {"ACTIVE", "READY", "UNKNOWN"} -> "proceed"
      [] OTHER -> "proceed"

\* Lines 218-226, the message of the ClientError handler
InvokeErrorMsg(outcome) ==
    CASE outcome = "RuntimeClientError_starting" -> <<"Agent runtime failed to start">>
      [] outcome = "RuntimeClientError" -> <<"AgentCore runtime error">>
      [] OTHER -> <<"AgentCore invocation failed">>

\* tbl with msg appended to the history of session_id
AppendMessage(tbl, session_id, msg) ==
    [tbl EXCEPT ![session_id].messages = Append(@, msg)]

\* Lines 113-115: a session is created when no id is given
GivenOrCreated(tbl, n, agent_runtime_arn, session_id, user_email) ==
    IF session_id = <<>>
    THEN CreateChatSession(tbl, n, agent_runtime_arn, user_email)
    ELSE [session_id |-> session_id, sessions |-> tbl, issued |-> n]

\* Lines 117-121: get or create the session
EnsureSession(c, agent_runtime_arn, user_email) ==
    IF c.session_id \notin DOMAIN c.sessions
    THEN CreateChatSession(c.sessions, c.issued, agent_runtime_arn, user_email)
    ELSE c

\* Lines 123-130: the user message is appended to the session
Asked(c, message) ==
    [c EXCEPT !.sessions = AppendMessage(@, c.session_id,
                                         ChatMessage("user", message, "sent"))]

\* What is known of the call when the status check starts
CallAsked(a, lookup) ==
    [NoInvocation EXCEPT
        !.op = "invoke_agent", !.session_id = a.session_id, !.status = lookup,
        !.outcome = "raised",
        !.user_at = Len(a.sessions[a.session_id].messages)]

\* Lines 139-242: the status check, the invocation and the handlers
Answered(a, call, lookup, outcome, response) ==
    IF check_agent_status(lookup) = "raise"
    THEN [sessions |-> a.sessions, issued |-> a.issued, invocation |-> call]
    ELSE CASE outcome = "ok" ->
                 [sessions |-> AppendMessage(a.sessions, a.session_id,
                                   ChatMessage("assistant", response, "sent")),
                  issued |-> a.issued,
                  invocation |-> [call EXCEPT !.invoked = TRUE,
                                              !.outcome = "returned",
                                              !.response = response]]
           [] outcome = "Exception" ->
                 [sessions |-> a.sessions, issued |-> a.issued,
                  invocation |-> [call EXCEPT !.invoked = TRUE]]
           [] OTHER ->
                 [sessions |-> AppendMessage(a.sessions, a.session_id,
                                   ChatMessage("system", InvokeErrorMsg(outcome), "error")),
                  issued |-> a.issued,
                  invocation |-> [call EXCEPT !.invoked = TRUE]]

\* Lines 132-242, once the user message is in the session
InvokeAsked(a, lookup, outcome, response) ==
    Answered(a, CallAsked(a, lookup), lookup, outcome, response)

\* invoke_agent as a function of the service state and of what the two AWS
\* calls do: the state afterwards and what the call did
InvokeAgent(tbl, n, agent_runtime_arn, message, session_id, user_email, lookup, outcome, response) ==
    InvokeAsked(Asked(EnsureSession(GivenOrCreated(tbl, n, agent_runtime_arn,
                                                   session_id, user_email),
                                    agent_runtime_arn, user_email),
                      message),
                lookup, outcome, response)

\* The session ids a caller may pass: none, one in the table, or one that
\* is not in the table
KnownIds == DOMAIN sessions \cup {<<>>, <<"stale">>}

\* The service after a call that left r
Called(r) ==
    /\ r.issued <= MaxUuids
    /\ MessageCount(r.sessions) <= MaxMessages
    /\ sessions' = r.sessions
    /\ issued' = r.issued
    /\ invocation' = r.invocation

\* r with the agent and the user of the call noted in what the call did
From(r, agent_runtime_arn, user_email) ==
    [r EXCEPT !.invocation.agent_runtime_arn = agent_runtime_arn,
              !.invocation.user_email = user_email]

\* What create_chat_session leaves, as Called takes it
Created(c) ==
    [sessions |-> c.sessions, issued |-> c.issued,
     invocation |-> [NoInvocation EXCEPT !.op = "create_chat_session",
                                         !.session_id = c.session_id,
                                         !.outcome = "returned"]]

\* POST /sessions -> create_chat_session
create_chat_session ==
    /\ \E arn \in AgentArns, email \in UserEmails \cup {<<>>} :
           Called(From(Created(CreateChatSession(sessions, issued, arn, email)),
                       arn, email))
    /\ UNCHANGED <<pipeline_vars, storage_vars, model_vars, text_vars>>

\* POST /invoke -> invoke_agent
invoke_agent ==
    /\ \E arn \in AgentArns, email \in UserEmails \cup {<<>>}, sid \in KnownIds,
          lookup \in SampleLookups, outcome \in SampleOutcomes,
          response \in ResponseTexts :
           /\ check_agent_status(lookup) = "raise" => outcome = "ok"
           /\ Called(From(InvokeAgent(sessions, issued, arn, <<"hi">>, sid, email,
                                      lookup, outcome, response),
                          arn, email))
    /\ UNCHANGED <<pipeline_vars, storage_vars, model_vars, text_vars>>

\* close_session
close_session ==
    /\ \E sid \in KnownIds :
           /\ sessions' = IF sid \in DOMAIN sessions
                          THEN [sessions EXCEPT ![sid].is_active = FALSE]
                          ELSE sessions
           /\ invocation' = [NoInvocation EXCEPT
                                 !.op = "close_session", !.session_id = sid,
                                 !.outcome = IF sid \in DOMAIN sessions
                                             THEN "True" ELSE "False"]
    /\ UNCHANGED <<issued, pipeline_vars, storage_vars, model_vars, text_vars>>

\* DELETE /sessions/{session_id} -> delete_session
delete_session ==
    /\ \E sid \in KnownIds :
           /\ sessions' = [x \in DOMAIN sessions \ {sid} |-> sessions[x]]
           /\ invocation' = [NoInvocation EXCEPT
                                 !.op = "delete_session", !.session_id = sid,
                                 !.outcome = IF sid \in DOMAIN sessions
                                             THEN "True" ELSE "False"]
    /\ UNCHANGED <<issued, pipeline_vars, storage_vars, model_vars, text_vars>>

NextChat ==
    \/ create_chat_session
    \/ invoke_agent
    \/ close_session
    \/ delete_session

SpecChat == Init /\ [][NextChat]_vars

\* C5: a request whose status lookup returned FAILED or CREATING does not
\* call invoke_agent_runtime.
C5_NoInvokeAfterFailedStatus ==
    (/\ invocation.op = "invoke_agent"
     /\ invocation.status \in {"FAILED", "CREATING"})
    => ~invocation.invoked

\* C19: create_chat_session for a user and an agent returns the session id
\* computed from that pair; when the table holds no session under it, an
\* empty one is created; when it holds one, the table stays as it is, the
\* history of that session included.  No other session changes.
C19_SamePairSameSession ==
    [][(invocation'.op = "create_chat_session" /\ invocation'.user_email /= <<>>)
         => /\ invocation'.session_id =
                  generate_user_session_id(invocation'.user_email,
                                           invocation'.agent_runtime_arn)
            /\ invocation'.session_id \in DOMAIN sessions => sessions' = sessions
            /\ invocation'.session_id \notin DOMAIN sessions =>
                  /\ DOMAIN sessions' = DOMAIN sessions \cup {invocation'.session_id}
                  /\ sessions'[invocation'.session_id].messages = <<>>
                  /\ \A sid \in DOMAIN sessions : sessions'[sid] = sessions[sid]
      ]_vars

\* A session with history was resumed by its user, closed or not
C19_Witness ==
    /\ invocation.op = "create_chat_session"
    /\ invocation.user_email = <<"alice">>
    /\ invocation.session_id \in DOMAIN sessions
    /\ Len(sessions[invocation.session_id].messages) = 2
    /\ ~sessions[invocation.session_id].is_active

\* The sessions created for a user and an agent other than the given ones
SessionsOfOthers(user_email, agent_runtime_arn) ==
    {generate_user_session_id(u, a) : u \in UserEmails, a \in AgentArns}
        \ {generate_user_session_id(user_email, agent_runtime_arn)}

\* C20: an invocation by a user for an agent appends no message to a session
\* that was created for another user or another agent.
C20_NoCrossUserAppend ==
    [][(invocation'.op = "invoke_agent" /\ invocation'.user_email /= <<>>)
         => \A sid \in SessionsOfOthers(invocation'.user_email,
                                        invocation'.agent_runtime_arn)
                          \cap DOMAIN sessions \cap DOMAIN sessions' :
                sessions'[sid].messages = sessions[sid].messages
      ]_vars

\* list_active_sessions: the sessions whose is_active flag is set
list_active_sessions(tbl) == {sid \in DOMAIN tbl : tbl[sid].is_active}

\* The message that follows the user message of the last invoke_agent call
\* in its session; a message of type "none" when there is none
ReplyToAsked ==
    IF Len(sessions[invocation.session_id].messages) > invocation.user_at
    THEN sessions[invocation.session_id].messages[invocation.user_at + 1]
    ELSE ChatMessage("none", <<>>, "none")

\* C29: when a call of invoke_agent has ended, by returning or by raising,
\* the user message it appended is followed in the history of its session
\* by an assistant message if the call returned and by a system message of
\* status error if it raised.
C29_EveryQuestionAnswered ==
    invocation.op = "invoke_agent" =>
        IF invocation.outcome = "returned"
        THEN ReplyToAsked.type = "assistant"
        ELSE ReplyToAsked.type = "system" /\ ReplyToAsked.status = "error"

\* C30: the session under the id that a call of create_chat_session has just
\* returned is active, it is in list_active_sessions, whatever calls of
\* create, close and delete came before.
C30_CreatedSessionIsActive ==
    invocation.op = "create_chat_session" =>
        /\ invocation.session_id \in DOMAIN sessions
        /\ sessions[invocation.session_id].is_active
        /\ invocation.session_id \in list_active_sessions(sessions)

(***************************************************************************)
(* The artifact store client called directly (S3CodeStorageService, as     *)
(* the storage tools and routers/s3_code.py call it)                       *)
(***************************************************************************)

\* How many objects the store holds at most
MaxObjects == 2

\* Session ids a caller passes: two well-formed ones, one that differs from
\* the first only in a character the sanitizer drops, an empty one, a blank
\* one and one without any allowed character
StoreSessionIds ==
    {<<"req", "_", "1">>, <<"req", "_", "2">>, <<"req", "/", "_", "1">>,
     <<>>, <<"SP">>, <<"/">>}

\* Slots a caller passes: the three recognized ones and another
StoreSlots == CodeTypes \cup {"notes"}

\* Contents a caller passes: code, nothing, blanks only
StoreContents == {<<"x = 1">>, <<>>, <<"SP", "NL">>}

\* Extensions a caller passes; ".py" is the default of store_code_file
FileExtensions == {".py", ".txt"}

\* Backend outcomes sampled for the direct calls
StoreFaults == {"none", "ClientError"}

\* A call of store_code_file
StoreCodeFile ==
    \E session_id \in StoreSessionIds, code_content \in StoreContents,
       code_type \in StoreSlots, file_extension \in FileExtensions,
       fault \in StoreFaults :
        /\ Cardinality(DOMAIN store) < MaxObjects
        /\ store' = store_code_file(store, session_id, code_content, code_type,
                                    file_extension, fault).store
        /\ s3call' = [NoS3Call EXCEPT
                        !.op = "store", !.session_id = session_id,
                        !.code_type = code_type, !.code_content = code_content,
                        !.key = StoreKey(session_id, code_content, code_type,
                                         file_extension),
                        !.status = store_code_file(store, session_id, code_content,
                                       code_type, file_extension, fault).status]
        /\ UNCHANGED <<request_vars, chat_vars, model_vars, text_vars>>

\* A call of get_code_file
GetCodeFile ==
    \E session_id \in StoreSessionIds, code_type \in StoreSlots,
       fault \in StoreFaults :
        /\ s3call' = [NoS3Call EXCEPT
                        !.op = "get", !.session_id = session_id,
                        !.code_type = code_type,
                        !.code_content =
                            get_code_file(store, session_id, code_type, fault).code_content,
                        !.key = GetKey(session_id, code_type),
                        !.fault = fault,
                        !.status =
                            get_code_file(store, session_id, code_type, fault).status]
        /\ UNCHANGED <<store, request_vars, chat_vars, model_vars, text_vars>>

\* A call of list_session_files
ListSessionFiles ==
    \E session_id \in StoreSessionIds, fault \in StoreFaults :
        /\ s3call' = [NoS3Call EXCEPT
                        !.op = "list", !.session_id = session_id,
                        !.status = list_session_files(store, session_id, fault).status,
                        !.files = list_session_files(store, session_id, fault).files]
        /\ UNCHANGED <<store, request_vars, chat_vars, model_vars, text_vars>>

\* The call of delete_session_files whose outcome is deleted
Deleted(session_id, deleted) ==
    /\ store' = deleted.store
    /\ s3call' = [NoS3Call EXCEPT
                    !.op = "delete", !.session_id = session_id,
                    !.status = deleted.status,
                    !.files = list_session_files(store, session_id, "none").files,
                    !.deleted_count = deleted.deleted_count,
                    !.errors = deleted.errors]
    /\ UNCHANGED <<request_vars, chat_vars, model_vars, text_vars>>

\* A call of delete_session_files
DeleteSessionFiles ==
    \E session_id \in StoreSessionIds, list_fault \in StoreFaults, fault \in StoreFaults :
      \E failed \in SUBSET list_session_files(store, session_id, "none").files :
        Deleted(session_id,
                delete_session_files(store, session_id, list_fault, failed, fault))

NextStore ==
    \/ StoreCodeFile
    \/ GetCodeFile
    \/ ListSessionFiles
    \/ DeleteSessionFiles

SpecStore == Init /\ [][NextStore]_vars

\* store_code_file was called with a slot, session id or content it must
\* reject
RejectedInput(call) ==
    \/ call.code_type \notin CodeTypes
    \/ call.session_id = <<>> \/ Strip(call.session_id) = <<>>
    \/ call.code_content = <<>> \/ Strip(call.code_content) = <<>>

\* C13: a call of store_code_file with a slot outside the three recognized
\* ones, an empty or blank session id, or an empty or blank content returns
\* status error and leaves the store exactly as it was.
C13_StoreRejectsInvalid ==
    [][(s3call'.op = "store" /\ RejectedInput(s3call'))
         => (s3call'.status = "error" /\ store' = store)]_vars

\* A rejected call was made while the store held an artifact
C13_Witness ==
    /\ s3call.op = "store"
    /\ s3call.code_type \in CodeTypes
    /\ s3call.session_id = <<"req", "_", "1">>
    /\ s3call.code_content = <<"SP", "NL">>
    /\ s3call.status = "error"
    /\ store /= <<>>

\* The object get_code_file reads for a session id and slot
ReadObject(session_id, code_type) ==
    <<safe_session_id(session_id), code_type,
      IF code_type = "requirements" THEN ".txt" ELSE ".py">>

\* C14: whatever session id and slot it is given, get_code_file ends with one
\* of the outcomes success, not_found and error (no exception leaves it), and
\* when the session id has a sanitized form, the slot is a recognized one, the
\* backend answers and holds no object for them, the outcome is not_found.
C14_GetIsTotal ==
    s3call.op = "get" =>
        /\ s3call.status \in {"success", "not_found", "error"}
        /\ ( /\ safe_session_id(s3call.session_id) /= <<>>
             /\ s3call.code_type \in CodeTypes
             /\ s3call.fault = "none"
             /\ ReadObject(s3call.session_id, s3call.code_type) \notin DOMAIN store )
           => s3call.status = "not_found"

\* A slot of one session was read while only another session had it stored
C14_Witness ==
    /\ s3call.op = "get"
    /\ s3call.session_id = <<"req", "_", "2">>
    /\ s3call.code_type = "pure_strands"
    /\ s3call.status = "not_found"
    /\ <<<<"req", "_", "1">>, "pure_strands", ".py">> \in DOMAIN store

\* The extension the layout gives a slot
LayoutExtension(slot) == IF slot = "requirements" THEN ".txt" ELSE ".py"

\* key reads temp-code/{id}/{slot}{extension} with an id of allowed
\* characters only, a recognized slot and the extension of that slot
InLayout(key) ==
    /\ Len(key) >= 6
    /\ key[1] = "temp-code" /\ key[2] = "/"
    /\ \A i \in 3..(Len(key) - 3) : IsSafeIdTok(key[i])
    /\ key[Len(key) - 2] = "/"
    /\ key[Len(key) - 1] \in CodeTypes
    /\ key[Len(key)] = LayoutExtension(key[Len(key) - 1])

\* C15: every key the client hands to the storage backend, to write or to
\* read an object, reads temp-code/{sanitized id}/{slot}{extension}: the id
\* holds allowed characters only, the slot is one of the three, the extension
\* is .py for the code slots and .txt for the manifest slot.
C15_PathLayout ==
    (s3call.op \in {"store", "get"} /\ s3call.key /= <<>>) => InLayout(s3call.key)

\* The objects stored under a session id: those below temp-code/{id}/ for
\* the sanitized id
StoredUnder(st, session_id) ==
    {k \in DOMAIN st : k[1] = safe_session_id(session_id)}

\* C16: a call delete_session_files(id) removes no object outside those stored
\* under id and changes no object that stays; when it reports success it has
\* removed every object stored under id except those it reports as failed,
\* its deleted count is the number of objects removed, and when it reports no
\* failure a listing of id on the new store is empty.
C16_DeleteIsScoped ==
    [][s3call'.op = "delete" =>
         /\ DOMAIN store \ DOMAIN store' \subseteq StoredUnder(store, s3call'.session_id)
         /\ DOMAIN store' \subseteq DOMAIN store
         /\ \A k \in DOMAIN store' : store'[k] = store[k]
         /\ s3call'.status = "success" =>
              /\ s3call'.errors \subseteq StoredUnder(store, s3call'.session_id)
              /\ DOMAIN store' =
                    DOMAIN store \ (StoredUnder(store, s3call'.session_id) \ s3call'.errors)
              /\ s3call'.deleted_count = Cardinality(DOMAIN store \ DOMAIN store')
              /\ s3call'.errors = {} =>
                    list_session_files(store', s3call'.session_id, "none").files = {}
      ]_vars

\* A delete removed the objects of one session without failure while another
\* session kept its object
C16_Witness ==
    /\ s3call.op = "delete"
    /\ s3call.session_id = <<"req", "_", "1">>
    /\ s3call.status = "success"
    /\ s3call.deleted_count = 1
    /\ s3call.errors = {}
    /\ StoredUnder(store, <<"req", "_", "1">>) = {}
    /\ StoredUnder(store, <<"req", "_", "2">>) /= {}

\* C28: right after store_code_file(id, content, slot, extension) returned
\* success, whatever the extension, get_code_file(id, slot) answered by the
\* backend returns success with exactly that content.
C28_StoreGetRoundTrip ==
    (s3call.op = "store" /\ s3call.status = "success") =>
        /\ get_code_file(store, s3call.session_id, s3call.code_type, "none").status
              = "success"
        /\ get_code_file(store, s3call.session_id, s3call.code_type, "none").code_content
              = s3call.code_content

(***************************************************************************)
(* Model id resolution (ModelIDService, routers/code.py generate_code)     *)
(***************************************************************************)

\* A model id is a sequence of characters, its vendor and model name being
\* one lexeme each; a region is its three-character head and the rest.  <<>>
\* is the empty string and also an absent (None) model id.

\* text.startswith(prefix)
StartsWith(text, prefix) ==
    Len(text) >= Len(prefix) /\ SubSeq(text, 1, Len(prefix)) = prefix

\* ('us.', 'eu.', 'apac.')
RegionalPrefixes == {<<"u", "s", ".">>, <<"e", "u", ".">>, <<"a", "p", "a", "c", ".">>}

\* model_id.startswith(('us.', 'eu.', 'apac.'))
HasRegionalPrefix(model_id) == \E p \in RegionalPrefixes : StartsWith(model_id, p)

\* The region argument left out (None)
NoRegion == <<"None">>

\* The us-east-1 the code falls back to
DefaultRegion == <<"us-", "east-1">>

\* The chain of startswith tests of get_regional_prefix
PrefixOfRegion(region) ==
    IF region = <<>> THEN <<"u", "s", ".">>
    ELSE IF Head(region) = "us-" THEN <<"u", "s", ".">>
    ELSE IF Head(region) = "eu-" THEN <<"e", "u", ".">>
    ELSE IF Head(region) = "ap-" THEN <<"a", "p", "a", "c", ".">>
    ELSE IF Head(region) = "ca-" THEN <<"u", "s", ".">>
    ELSE IF Head(region) = "sa-" THEN <<"u", "s", ".">>
    ELSE <<"u", "s", ".">>

\* What region detection finds when no region is given and none is cached:
\* the configured or session region (possibly none), or <<"raise">> when the
\* lookup raises
DetectedRegion(detected) == IF detected = <<"raise">> THEN DefaultRegion ELSE detected

\* get_regional_prefix: the prefix and the caches after the call
get_regional_prefix(caches, region, detected) ==
    IF region /= NoRegion
    THEN [prefix |-> PrefixOfRegion(region), caches |-> caches]
    ELSE IF caches.region /= <<>>
    THEN [prefix |-> PrefixOfRegion(caches.region), caches |-> caches]
    ELSE [prefix |-> PrefixOfRegion(DetectedRegion(detected)),
          caches |-> [caches EXCEPT !.region = DetectedRegion(detected)]]

\* A format_model_for_cris without the test for a prefix already there
format_model_for_cris_AlwaysPrefixes(caches, model_id, region, detected) ==
    IF model_id = <<>>
    THEN [model_id |-> model_id, caches |-> caches]
    ELSE [model_id |-> get_regional_prefix(caches, region, detected).prefix \o model_id,
          caches |-> get_regional_prefix(caches, region, detected).caches]

\* format_model_for_cris: the formatted id and the caches after the call
format_model_for_cris(caches, model_id, region, detected) ==
    IF model_id = <<>> \/ HasRegionalPrefix(model_id)
    THEN [model_id |-> model_id, caches |-> caches]
    ELSE [model_id |-> get_regional_prefix(caches, region, detected).prefix \o model_id,
          caches |-> get_regional_prefix(caches, region, detected).caches]

\* 'anthropic.claude-3-7-sonnet-20250219-v1:0'
FallbackModel == <<"anthropic", ".", "claude">>

\* The system default once its base id and region are known
CachedDefault(formatted) ==
    [model_id |-> formatted.model_id,
     caches |-> [formatted.caches EXCEPT !.default_model = formatted.model_id]]

\* get_system_default_model_id: config is what config_service answers, a
\* BEDROCK_MODEL_ID and a REGION (<<>> when the key is absent), or that it
\* raises
get_system_default_model_id(caches, config) ==
    IF caches.default_model /= <<>>
    THEN [model_id |-> caches.default_model, caches |-> caches]
    ELSE IF config.raises
    THEN CachedDefault(format_model_for_cris(caches, FallbackModel, DefaultRegion, <<>>))
    ELSE CachedDefault(format_model_for_cris(caches,
            IF config.BEDROCK_MODEL_ID = <<>> THEN FallbackModel ELSE config.BEDROCK_MODEL_ID,
            IF config.REGION = <<>> THEN DefaultRegion ELSE config.REGION, <<>>))

\* get_user_model_preference: expertAgentModel is the stored preference, <<>>
\* when the user has no settings, no preference or the lookup fails; the
\* result <<>> stands for None
get_user_model_preference(caches, expertAgentModel, detected) ==
    format_model_for_cris(caches, expertAgentModel, NoRegion, detected)

\* The end of get_effective_model_id once the user preference is known
EffectiveFrom(preferred, config, region, detected) ==
    IF preferred.model_id /= <<>>
    THEN format_model_for_cris(preferred.caches, preferred.model_id, region, detected)
    ELSE format_model_for_cris(
            get_system_default_model_id(preferred.caches, config).caches,
            get_system_default_model_id(preferred.caches, config).model_id,
            region, detected)

\* get_effective_model_id(user_id, region)
get_effective_model_id(caches, user_id, expertAgentModel, config, region, detected) ==
    IF user_id /= <<>>
    THEN EffectiveFrom(get_user_model_preference(caches, expertAgentModel, detected),
                       config, region, detected)
    ELSE EffectiveFrom([model_id |-> <<>>, caches |-> caches], config, region, detected)

\* Model ids a request, a user or the configuration names
ModelIds ==
    {<<"anthropic", ".", "claude">>, <<"amazon", ".", "nova">>,
     <<"u", "s", ".", "amazon", ".", "nova">>,
     <<"e", "u", ".", "anthropic", ".", "claude">>,
     <<"a", "p", "a", "c", ".", "meta", ".", "llama">>,
     <<"u", "s", "meta", ".", "llama">>, <<"a", "p", ".", "meta", ".", "llama">>}

\* Regions of a deployment
Regions ==
    {<<"us-", "east-1">>, <<"eu-", "west-1">>, <<"ap-", "south-1">>,
     <<"ca-", "central-1">>, <<"me-", "south-1">>}

\* What region detection can meet
Detections == {<<"us-", "east-1">>, <<"ap-", "south-1">>, <<>>, <<"raise">>}

\* What the configuration service can answer
Configs ==
    {[BEDROCK_MODEL_ID |-> m, REGION |-> r, raises |-> FALSE] :
        m \in {<<>>, <<"amazon", ".", "nova">>}, r \in {<<>>, <<"eu-", "west-1">>}}
    \cup {[BEDROCK_MODEL_ID |-> <<>>, REGION |-> <<>>, raises |-> TRUE]}

\* The model id a request carries in bedrock_config (<<>> without one)
RequestModelIds ==
    {<<>>, <<"a", "p", "a", "c", ".", "meta", ".", "llama">>, <<"u", "s", "meta", ".", "llama">>}

\* The preference a user has stored (<<>> without one)
UserModelIds == {<<>>, <<"anthropic", ".", "claude">>, <<"u", "s", ".", "amazon", ".", "nova">>}

\* The signed-in user of a request
CurrentUser == <<"alice">>

\* routers/code.py generate_code, lines 57-59: the model id of the request
\* is resolved from the user and the configuration
Resolved(request_model_id, expertAgentModel, config, effective) ==
    /\ model' = [NoModelCall EXCEPT
                    !.op = "effective", !.request_model_id = request_model_id,
                    !.user_model_id = expertAgentModel,
                    !.default_model_id =
                        get_system_default_model_id(resolver, config).model_id,
                    !.effective = effective.model_id]
    /\ resolver' = effective.caches
    /\ UNCHANGED <<pipeline_vars, chat_vars, storage_vars, text_vars>>

ResolveModelId ==
    \E request_model_id \in RequestModelIds, expertAgentModel \in UserModelIds,
       config \in Configs, detected \in Detections :
        Resolved(request_model_id, expertAgentModel, config,
                 get_effective_model_id(resolver, CurrentUser, expertAgentModel,
                                        config, NoRegion, detected))

\* format_model_for_cris applied to an id, and again to its result
Formatted(model_id, once, region, detected) ==
    /\ model' = [NoModelCall EXCEPT
                    !.op = "format", !.model_id = model_id, !.once = once.model_id,
                    !.again = format_model_for_cris(once.caches, once.model_id,
                                                    region, detected).model_id]
    /\ resolver' = format_model_for_cris(once.caches, once.model_id, region, detected).caches
    /\ UNCHANGED <<pipeline_vars, chat_vars, storage_vars, text_vars>>

FormatModelForCris ==
    \E model_id \in ModelIds \cup {<<>>}, region \in Regions \cup {NoRegion, <<>>},
       again_region \in Regions \cup {NoRegion}, detected \in Detections :
        Formatted(model_id, format_model_for_cris(resolver, model_id, region, detected),
                  again_region, detected)

\* ModelIDService.clear_cache
clear_cache ==
    /\ resolver /= NoCaches
    /\ resolver' = NoCaches
    /\ UNCHANGED <<model, pipeline_vars, chat_vars, storage_vars, text_vars>>

NextModel ==
    \/ ResolveModelId
    \/ FormatModelForCris
    \/ clear_cache

SpecModel == Init /\ [][NextModel]_vars

\* A model id without its regional prefix
RECURSIVE BaseModel(_)
BaseModel(model_id) ==
    IF HasRegionalPrefix(model_id)
    THEN BaseModel(SubSeq(model_id,
                          1 + Len(CHOOSE p \in RegionalPrefixes : StartsWith(model_id, p)),
                          Len(model_id)))
    ELSE model_id

\* C17: the effective model id of a generation request is the model named in
\* the request when the request names one, else the user's stored preference
\* when there is one, else the system default (each possibly with a regional
\* prefix put in front).
C17_RequestOverrideWins ==
    model.op = "effective" =>
        BaseModel(model.effective) =
            BaseModel(IF model.request_model_id /= <<>> THEN model.request_model_id
                      ELSE IF model.user_model_id /= <<>> THEN model.user_model_id
                      ELSE model.default_model_id)

\* C18: format_model_for_cris returns an id that starts with a recognized
\* prefix as it is, returns a non-empty id without one with exactly one
\* prefix in front of it, and applied to its own result returns that result.
C18_FormatIdempotent ==
    model.op = "format" =>
        /\ HasRegionalPrefix(model.model_id) => model.once = model.model_id
        /\ (model.model_id /= <<>> /\ ~HasRegionalPrefix(model.model_id)) =>
              \E p \in RegionalPrefixes : model.once = p \o model.model_id
        /\ model.again = model.once

\* An id without a prefix was formatted and formatted again
C18_Witness ==
    /\ model.op = "format"
    /\ model.model_id = <<"a", "p", ".", "meta", ".", "llama">>
    /\ model.once = <<"a", "p", "a", "c", ".", "a", "p", ".", "meta", ".", "llama">>
    /\ model.again = model.once

(***************************************************************************)
(* The security scan of the recovered code                                 *)
(***************************************************************************)

\* Some searched anti-pattern occurs in the code
HasSecurityHit(code) ==
    \E i \in 1..Len(SecurityChecks) : Contains(code, SecurityChecks[i][1])

\* C22: the security scan annotates and never blocks: whenever the local
\* path recovered code, generate_code_freeform returned its mapping, and the
\* security_validation of its metadata has is_safe false exactly when at
\* least one issue was recorded, which is exactly when the code has a hit
C22_ScanAnnotatesNeverBlocks ==
    (pc \in {"router", "done"} /\ local.success) =>
        /\ svc.kind = "dict"
        /\ Len(svc.result.security_validation) = 1
        /\ svc.result.security_validation[1].is_safe
               <=> svc.result.security_validation[1].security_issues = <<>>
        /\ svc.result.security_validation[1].is_safe <=> ~HasSecurityHit(local.code)

\* Code with two hits was recovered and returned, marked unsafe with both
\* issues recorded
C22_Witness ==
    /\ pc = "router"
    /\ local.success
    /\ Contains(local.code, "eval(")
    /\ svc.kind = "dict"
    /\ svc.result.generated_code /= <<>>
    /\ svc.result.security_validation =
           <<[is_safe |-> FALSE,
              security_issues |-> <<"Dynamic evaluation detected",
                                    "Interactive input detected (causes automation issues)">>]>>

(***************************************************************************)
(* Escape sequences in the extracted code                                  *)
(***************************************************************************)

\* C26: a successful extraction never contains a literal backslash-n: when
\* the code the local path extracted contains one, the request is not
\* answered with success (and the code is not repaired either)
C26_NoEscapedNewlineInSuccess ==
    (pc = "done" /\ local.success /\ Contains(local.code, "\\n")) =>
        ~(reply.kind /= "none" /\ reply.success)

\* The cleanup leaves escape sequences in place: what is returned after
\* code with a backslash-n was extracted still has it
C26_NeverRepaired ==
    (svc.kind = "dict" /\ local.success /\ Contains(local.code, "\\n")) =>
        Contains(svc.result.generated_code, "\\n")

(***************************************************************************)
(* What the endpoint writes when streaming is asked for                    *)
(***************************************************************************)

\* The chunk is  data: <payload>  closed by a blank line, the payload on one
\* line
IsSseFrame(chunk) ==
    /\ chunk.kind \in {"frame", "final"}
    /\ \A j \in 1..Len(chunk.payload) : ~IsLineBreak(chunk.payload[j])

\* The chunk is a line of white space only
IsBlankChunk(chunk) == chunk.kind = "line" /\ Strip(chunk.payload) = <<>>

\* C27: when the request asks for streaming, every chunk the endpoint writes
\* is a complete SSE frame or a blank line, whichever path served the
\* request
C27_EveryChunkIsSseFrame ==
    (pc = "done" /\ request.stream /\ reply.kind = "stream") =>
        \A i \in 1..Len(reply.chunks) :
            IsSseFrame(reply.chunks[i]) \/ IsBlankChunk(reply.chunks[i])

\* The same for the requests the remote path served
C27_RemoteChunksAreSseFrames ==
    (pc = "done" /\ request.stream /\ reply.kind = "stream" /\ svc.kind = "generator") =>
        \A i \in 1..Len(reply.chunks) :
            IsSseFrame(reply.chunks[i]) \/ IsBlankChunk(reply.chunks[i])

(***************************************************************************)
(* The state generation requests share                                     *)
(***************************************************************************)

\* C21: generation requests share no mutable state other than the artifact
\* store and the chat-session table: no step of handling a request changes
\* the model the process-wide expert agent is set to, which the next request
\* reads
C21_RequestsShareNoAgentState == [][expert' = expert]_vars

\* A request on the local path has switched the shared agent's model
C21_AgentSwitched ==
    /\ pc = "local_extract"
    /\ expert.current_model_id = request.model_id
    /\ expert /= StartupAgent

(***************************************************************************)
(* The text functions of AgentService, applied to texts of their own       *)
(***************************************************************************)

\* The longest text of line ends, blanks and statements that is enumerated
MaxTextLen == 5

\* Every text of at most MaxTextLen statements, line feeds, carriage
\* returns and blanks
LineTexts == UNION {[1..n -> {"x = 1", "NL", "CR", "SP"}] : n \in 0..MaxTextLen}

\* Model responses on which the extraction methods differ: a tagged block,
\* a bare block, a tagged block too short followed by an import, a short
\* import, and the responses of the local model
ExtractionTexts ==
    ModelTexts \cup
    { <<"FENCE", "NL", "from strands import Agent", "NL", "LONG", "NL", "FENCE">>,
      <<"FENCE_PY", "NL", "x = 1", "NL", "FENCE", "NL", "from strands import Agent",
        "NL", "LONG">>,
      <<"FENCE_PY", "NL", "x = 1", "NL", "FENCE", "NL", "NL", "import strands",
        "NL", "LONG">>,
      <<"from strands import Agent", "NL", "NL", "LONG">>,
      <<"FENCE_PY", "NL", "LONG", "NL", "FENCE", "NL", "FENCE", "NL",
        "from strands import Agent", "NL", "LONG", "NL", "FENCE">> }

\* The texts the functions are applied to
TextInputs == LineTexts \cup ExtractionTexts

\* Before any function is applied: a text is given
InitText ==
    /\ InitServices
    /\ applied \in {[NoApplication EXCEPT !.input = text] : text \in TextInputs}

\* _cleanup_code_formatting applied to the given text, and to its own output
CleanupCodeFormatting ==
    /\ applied' = [NoApplication EXCEPT
           !.input = applied.input,
           !.fn = "_cleanup_code_formatting",
           !.output = cleanup_code_formatting(applied.input),
           !.again = cleanup_code_formatting(cleanup_code_formatting(applied.input))]
    /\ UNCHANGED <<pipeline_vars, chat_vars, storage_vars, model_vars>>

\* _extract_code_with_fallbacks applied to the given text
ExtractCodeWithFallbacks ==
    /\ applied' = [NoApplication EXCEPT
           !.input = applied.input,
           !.fn = "_extract_code_with_fallbacks",
           !.extraction = extract_code_with_fallbacks(applied.input),
           !.output = extract_code_with_fallbacks(applied.input).code]
    /\ UNCHANGED <<pipeline_vars, chat_vars, storage_vars, model_vars>>

\* The response {content: [{text: X}]}
ContentMapping(X) == [message_kind |-> "content_list", parts |-> <<X>>]

\* _extract_response_text_properly applied to the response whose one content
\* block holds the given text: as the message of the local agent's result
\* (line 579), or as the raw result mapping of the buffered remote response
\* (line 1478)
ExtractResponseText ==
    /\ \E arg \in {"AgentResult", "dict"} :
           applied' = [NoApplication EXCEPT
               !.input = applied.input,
               !.fn = "_extract_response_text_properly",
               !.arg = arg,
               !.output = extract_response_text(arg, ContentMapping(applied.input))]
    /\ UNCHANGED <<pipeline_vars, chat_vars, storage_vars, model_vars>>

NextText ==
    \/ CleanupCodeFormatting
    \/ ExtractResponseText
    \/ ExtractCodeWithFallbacks

SpecText == InitText /\ [][NextText]_vars

\* C24: the formatting cleanup is idempotent: applied to its own output it
\* returns that output unchanged, for every text
C24_CleanupIdempotent ==
    applied.fn = "_cleanup_code_formatting" => applied.again = applied.output

\* A text with mixed line ends, a run of blank lines and trailing white
\* space has been cleaned, and the cleanup changed it
C24_Witness ==
    /\ applied.fn = "_cleanup_code_formatting"
    /\ applied.input = <<"x = 1", "CR", "NL", "CR", "SP">>
    /\ applied.output = <<"x = 1", "NL">>
    /\ applied.again = applied.output

\* Method number m returns, without raising, code of more than 50 characters
MethodPasses(m, response) ==
    /\ ExtractionMethod(m, response).ok
    /\ TextLen(ExtractionMethod(m, response).code) > MinViableLen

\* C25: the four methods are tried in the order python_blocks,
\* generic_blocks, import_based, pattern_matching; the result is the code of
\* the first method that returns more than 50 characters, tagged with that
\* method's name, every earlier method having raised or returned 50
\* characters or fewer; success is false exactly when all four fail
C25_FirstViableMethodWins ==
    applied.fn = "_extract_code_with_fallbacks" =>
        /\ applied.extraction.success
               <=> \E m \in 1..4 : MethodPasses(m, applied.input)
        /\ applied.extraction.success =>
               \E m \in 1..4 :
                   /\ applied.extraction.method = MethodName(m)
                   /\ MethodPasses(m, applied.input)
                   /\ applied.extraction.code = ExtractionMethod(m, applied.input).code
                   /\ \A k \in 1..(m - 1) : ~MethodPasses(k, applied.input)

\* The tagged block was too short and skipped, the bare-block method raised,
\* and the import-anchored method won although the pattern-anchored method
\* would have passed as well
C25_Witness ==
    /\ applied.fn = "_extract_code_with_fallbacks"
    /\ applied.extraction.success
    /\ applied.extraction.method = "import_based"
    /\ ExtractionMethod(1, applied.input).ok
    /\ ~MethodPasses(1, applied.input)
    /\ ~ExtractionMethod(2, applied.input).ok
    /\ MethodPasses(4, applied.input)

\* C23: for every response shaped as {content: [{text: X}]}, text
\* normalization returns exactly X with no added escaping, both for the
\* local agent's result and for the raw result of the buffered remote path
C23_MappingTextReturnedExactly ==
    applied.fn = "_extract_response_text_properly" =>
        applied.output = applied.input

\* For the local agent's result alone: the text of the one content block of
\* the result's message is returned exactly
C23_AgentResultTextExact ==
    (applied.fn = "_extract_response_text_properly" /\ applied.arg = "AgentResult") =>
        applied.output = applied.input

=============================================================================
